---- MODULE Spec2Model ----
(***************************************************************************)
(* Item ingestion pipeline of the Digital Folklore Archive:                *)
(*   - the sequential ID allocator (src/lib/api/idGenerator.ts),           *)
(*   - the fixed-window rate limiter and the error envelope                *)
(*     (src/lib/api/rateLimit.ts),                                         *)
(*   - the API-key authenticator (src/lib/api/auth.ts),                    *)
(*   - the request validator (src/lib/api/idGenerator.ts, lines 190-...),  *)
(*   - createItem (the item service), the REST route POST /api/v1/items,   *)
(*     the MCP tool handler and the seeding script.                        *)
(* Steps of one request are split where the code awaits I/O, so that       *)
(* requests interleave exactly where the event loop lets them.             *)
(***************************************************************************)
EXTENDS Integers, Sequences, FiniteSets, TLC

(***************************************************************************)
(* Bounds of the model                                                     *)
(***************************************************************************)
\* number of requests (REST and MCP together) that are started in one run
MaxStarted == 2
\* number of times the clock is advanced in one run
MaxClockSteps == 1
\* number of direct checkRateLimit calls in one run of SpecRate
MaxCalls == 5
\* the longest text handed to normalizeText() on its own
MaxTextLen == 3

(***************************************************************************)
(* Program constants                                                       *)
(***************************************************************************)
ID_DIGITS == 6
MAX_COUNT == 999999
CLEANUP_INTERVAL_MS == 300000
DEFAULT_WINDOW_MS == 60000
DEFAULT_MAX_REQUESTS == 10
MS_PER_SECOND == 1000

ID_PREFIX == "DTA"

(***************************************************************************)
(* Small arithmetic helpers (JavaScript Math functions)                     *)
(***************************************************************************)
Max(a, b) == IF a >= b THEN a ELSE b

\* Math.floor(a / b) for b > 0 and any integer a
FloorDiv(a, b) == a \div b

\* Math.ceil(a / b) for b > 0 and any integer a
CeilDiv(a, b) == -((-a) \div b)

(***************************************************************************)
(* formatItemId: String(num).padStart(ID_DIGITS, '0') behind "DTA-"        *)
(***************************************************************************)
DigitChar == <<"0", "1", "2", "3", "4", "5", "6", "7", "8", "9">>

RECURSIVE NatToString(_)
NatToString(n) ==
  IF n < 10 THEN DigitChar[n + 1]
  ELSE NatToString(n \div 10) \o DigitChar[(n % 10) + 1]

\* String(num) for an integer num
NumToString(num) == IF num < 0 THEN "-" \o NatToString(-num) ELSE NatToString(num)

RECURSIVE padStart(_, _, _)
padStart(s, targetLen, fill) ==
  IF Len(s) >= targetLen THEN s ELSE padStart(fill \o s, targetLen, fill)

formatItemId(num) == ID_PREFIX \o "-" \o padStart(NumToString(num), ID_DIGITS, "0")

(***************************************************************************)
(* Optional values: None is JavaScript's undefined/null, Some(x) a value   *)
(***************************************************************************)
None == <<>>
Some(x) == <<x>>
IsSome(o) == Len(o) > 0
Get(o) == o[1]

(***************************************************************************)
(* Configuration read from the environment                                 *)
(* env = [NODE_ENV, DTA_API_SECRET_KEY, DTA_API_RATE_LIMIT_WINDOW_MS,      *)
(*        DTA_API_RATE_LIMIT_MAX_REQUESTS]; numeric variables are          *)
(*        None (unset) or Some(n) (a decimal string parseInt reads as n)   *)
(***************************************************************************)
getConfig(e) ==
  [ windowMs    |-> IF IsSome(e.windowMs) THEN Get(e.windowMs) ELSE DEFAULT_WINDOW_MS,
    maxRequests |-> IF IsSome(e.maxRequests) THEN Get(e.maxRequests)
                    ELSE DEFAULT_MAX_REQUESTS ]

(***************************************************************************)
(* Rate limiter (rateLimit.ts)                                             *)
(* A store is a function from the tracked client IPs to ClientRecords.     *)
(***************************************************************************)
getClientIp(request) ==
  IF IsSome(request.xForwardedFor) THEN Get(request.xForwardedFor)
  ELSE IF IsSome(request.xRealIp) THEN Get(request.xRealIp)
  ELSE "unknown"

cleanupExpiredEntries(store, lastCleanup, now, config) ==
  IF now - lastCleanup < CLEANUP_INTERVAL_MS
  THEN [store |-> store, lastCleanup |-> lastCleanup]
  ELSE LET expirationThreshold == now - config.windowMs
           kept == {ip \in DOMAIN store : ~(store[ip].windowStart < expirationThreshold)}
       IN  [store |-> [ip \in kept |-> store[ip]], lastCleanup |-> now]

\* headers of a rate-limit result; Retry-After only when the request is denied
RateLimitHeaders(limit, remaining, reset, retryAfter) ==
  [ limit |-> Some(limit), remaining |-> Some(remaining), reset |-> Some(reset),
    retryAfter |-> retryAfter ]

NoHeaders == [limit |-> None, remaining |-> None, reset |-> None, retryAfter |-> None]

\* FAULTY VARIANT of checkRateLimit: the window test uses > instead of >=
checkRateLimit_StrictWindow(store, lastCleanup, now, request, e) ==
  LET config   == getConfig(e)
      clientIp == getClientIp(request)
      cleaned  == cleanupExpiredEntries(store, lastCleanup, now, config)
      st       == cleaned.store
      tracked  == clientIp \in DOMAIN st
  IN  IF ~tracked \/ now - st[clientIp].windowStart > config.windowMs
      THEN LET resetTime == FloorDiv(now + config.windowMs, MS_PER_SECOND)
           IN  [ store |-> (clientIp :> [count |-> 1, windowStart |-> now]) @@ st,
                 lastCleanup |-> cleaned.lastCleanup,
                 result |-> [ allowed |-> TRUE,
                              remaining |-> config.maxRequests - 1,
                              reset |-> resetTime,
                              headers |-> RateLimitHeaders(config.maxRequests,
                                            config.maxRequests - 1, resetTime, None) ] ]
      ELSE LET record    == [st[clientIp] EXCEPT !.count = @ + 1]
               resetTime == FloorDiv(record.windowStart + config.windowMs, MS_PER_SECOND)
               remaining == Max(0, config.maxRequests - record.count)
               allowed   == record.count <= config.maxRequests
               retry     == IF allowed THEN None
                            ELSE Some(CeilDiv(record.windowStart + config.windowMs - now,
                                              MS_PER_SECOND))
           IN  [ store |-> (clientIp :> record) @@ st,
                 lastCleanup |-> cleaned.lastCleanup,
                 result |-> [ allowed |-> allowed,
                              remaining |-> remaining,
                              reset |-> resetTime,
                              headers |-> RateLimitHeaders(config.maxRequests, remaining,
                                                           resetTime, retry) ] ]

\* FAULTY VARIANT of checkRateLimit: the decision is taken on the count read
\* before the increment
checkRateLimit_DecideBeforeIncrement(store, lastCleanup, now, request, e) ==
  LET config   == getConfig(e)
      clientIp == getClientIp(request)
      cleaned  == cleanupExpiredEntries(store, lastCleanup, now, config)
      st       == cleaned.store
      tracked  == clientIp \in DOMAIN st
  IN  IF ~tracked \/ now - st[clientIp].windowStart >= config.windowMs
      THEN LET resetTime == FloorDiv(now + config.windowMs, MS_PER_SECOND)
           IN  [ store |-> (clientIp :> [count |-> 1, windowStart |-> now]) @@ st,
                 lastCleanup |-> cleaned.lastCleanup,
                 result |-> [ allowed |-> TRUE,
                              remaining |-> config.maxRequests - 1,
                              reset |-> resetTime,
                              headers |-> RateLimitHeaders(config.maxRequests,
                                            config.maxRequests - 1, resetTime, None) ] ]
      ELSE LET record    == [st[clientIp] EXCEPT !.count = @ + 1]
               resetTime == FloorDiv(record.windowStart + config.windowMs, MS_PER_SECOND)
               remaining == Max(0, config.maxRequests - record.count)
               allowed   == st[clientIp].count <= config.maxRequests
               retry     == IF allowed THEN None
                            ELSE Some(CeilDiv(record.windowStart + config.windowMs - now,
                                              MS_PER_SECOND))
           IN  [ store |-> (clientIp :> record) @@ st,
                 lastCleanup |-> cleaned.lastCleanup,
                 result |-> [ allowed |-> allowed,
                              remaining |-> remaining,
                              reset |-> resetTime,
                              headers |-> RateLimitHeaders(config.maxRequests, remaining,
                                                           resetTime, retry) ] ]

\* checkRateLimit(request) at time now: the new store, the new lastCleanup
\* and the RateLimitResult.  The function is declared async but awaits
\* nothing: its body runs from the call to the return in one turn of the
\* event loop, so no other call runs between its read and its write
checkRateLimit(store, lastCleanup, now, request, e) ==
  LET config   == getConfig(e)
      clientIp == getClientIp(request)
      cleaned  == cleanupExpiredEntries(store, lastCleanup, now, config)
      st       == cleaned.store
      tracked  == clientIp \in DOMAIN st
  IN  IF ~tracked \/ now - st[clientIp].windowStart >= config.windowMs
      THEN LET resetTime == FloorDiv(now + config.windowMs, MS_PER_SECOND)
           IN  [ store |-> (clientIp :> [count |-> 1, windowStart |-> now]) @@ st,
                 lastCleanup |-> cleaned.lastCleanup,
                 result |-> [ allowed |-> TRUE,
                              remaining |-> config.maxRequests - 1,
                              reset |-> resetTime,
                              headers |-> RateLimitHeaders(config.maxRequests,
                                            config.maxRequests - 1, resetTime, None) ] ]
      ELSE LET record    == [st[clientIp] EXCEPT !.count = @ + 1]
               resetTime == FloorDiv(record.windowStart + config.windowMs, MS_PER_SECOND)
               remaining == Max(0, config.maxRequests - record.count)
               allowed   == record.count <= config.maxRequests
               retry     == IF allowed THEN None
                            ELSE Some(CeilDiv(record.windowStart + config.windowMs - now,
                                              MS_PER_SECOND))
           IN  [ store |-> (clientIp :> record) @@ st,
                 lastCleanup |-> cleaned.lastCleanup,
                 result |-> [ allowed |-> allowed,
                              remaining |-> remaining,
                              reset |-> resetTime,
                              headers |-> RateLimitHeaders(config.maxRequests, remaining,
                                                           resetTime, retry) ] ]

(***************************************************************************)
(* Error envelope (rateLimit.ts, lines 255-576: the errors module)         *)
(* A response is [status, success, code, message, details, data, headers]; *)
(* details and data are optional values.                                   *)
(***************************************************************************)
ERROR_STATUS_CODES ==
  [ UNAUTHORIZED |-> 401, FORBIDDEN |-> 403, VALIDATION_ERROR |-> 400,
    RATE_LIMITED |-> 429, NOT_FOUND |-> 404, INTERNAL_ERROR |-> 500 ]

shouldExposeDetails(code, nodeEnv) ==
  LET isProduction == (nodeEnv = "production")
  IN  IF isProduction /\ code = "INTERNAL_ERROR" THEN FALSE ELSE ~isProduction

\* details is None or Some(record); the record loses its stack/stackTrace keys
sanitizeDetails(code, details, nodeEnv) ==
  IF ~shouldExposeDetails(code, nodeEnv) THEN None
  ELSE IF IsSome(details)
       THEN LET d == Get(details)
            IN  Some([k \in (DOMAIN d) \ {"stack", "stackTrace"} |-> d[k]])
       ELSE details

createErrorResponse(code, message, details, nodeEnv) ==
  [ status  |-> ERROR_STATUS_CODES[code],
    success |-> FALSE,
    code    |-> code,
    message |-> message,
    details |-> sanitizeDetails(code, details, nodeEnv),
    data    |-> None,
    headers |-> NoHeaders ]

createSuccessResponse(data, status) ==
  [ status  |-> status,
    success |-> TRUE,
    code    |-> "",
    message |-> "",
    details |-> None,
    data    |-> Some(data),
    headers |-> NoHeaders ]

createValidationError(message, fieldErrors, nodeEnv) ==
  createErrorResponse("VALIDATION_ERROR", message,
                      IF IsSome(fieldErrors) THEN Some([fields |-> Get(fieldErrors)])
                      ELSE None,
                      nodeEnv)

createAuthError(message, nodeEnv) ==
  createErrorResponse("UNAUTHORIZED", message, None, nodeEnv)

\* the catch branch of withErrorHandling: error is the thrown Error's message
withErrorHandling(errorMessage, nodeEnv) ==
  [ response |-> createErrorResponse("INTERNAL_ERROR", "An unexpected error occurred",
                                     Some([message |-> errorMessage]), nodeEnv),
    logged   |-> (nodeEnv # "production") ]

\* response.headers.set(key, value) for every entry of the rate-limit headers
SetHeaders(response, headers) ==
  [response EXCEPT !.headers =
     [h \in DOMAIN @ |-> IF IsSome(headers[h]) THEN headers[h] ELSE @[h]]]

(***************************************************************************)
(* Authenticator (auth.ts). A key is a string, written as the sequence of   *)
(* its code points.                                                        *)
(***************************************************************************)
\* the UTF-8 bytes of one code point; a lone surrogate is encoded as U+FFFD
utf8(c) ==
  IF c < 128 THEN <<c>>
  ELSE IF c < 2048 THEN <<192 + (c \div 64), 128 + (c % 64)>>
  ELSE IF c >= 55296 /\ c <= 57343 THEN <<239, 191, 189>>
  ELSE <<224 + (c \div 4096), 128 + ((c \div 64) % 64), 128 + (c % 64)>>

\* Buffer.from(str, 'utf8')
RECURSIVE BufferFrom(_)
BufferFrom(str) ==
  IF str = <<>> THEN <<>> ELSE utf8(Head(str)) \o BufferFrom(Tail(str))

\* FAULTY VARIANT of timingSafeCompare: only the bytes both buffers have are
\* compared
timingSafeCompare_CommonPrefix(a, b) ==
  LET bufA == BufferFrom(a)
      bufB == BufferFrom(b)
  IN  \A i \in 1..(IF Len(bufA) < Len(bufB) THEN Len(bufA) ELSE Len(bufB)) :
        bufA[i] = bufB[i]

timingSafeCompare(a, b) ==
  LET bufA == BufferFrom(a)
      bufB == BufferFrom(b)
  IN  IF Len(bufA) # Len(bufB) THEN FALSE
      ELSE \A i \in 1..Len(bufA) : bufA[i] = bufB[i]

\* FAULTY VARIANT of logAuthFailure: the record also tells how long the
\* presented credential was
logAuthFailure_WithKeyLength(request, reason, now) ==
  [ timestamp |-> now,
    method    |-> request.method,
    path      |-> request.path,
    reason    |-> reason,
    hasApiKey |-> IsSome(request.apiKey),
    keyLength |-> IF IsSome(request.apiKey) THEN Len(Get(request.apiKey)) ELSE 0 ]

\* the record logAuthFailure hands to console.warn
logAuthFailure(request, reason, now) ==
  [ timestamp |-> now,
    method    |-> request.method,
    path      |-> request.path,
    reason    |-> reason,
    hasApiKey |-> IsSome(request.apiKey) ]

\* [valid, log]: log is the sequence of records written to the console
validateApiKey(request, e, now) ==
  LET apiSecret   == e.apiSecret
      providedKey == request.apiKey
  IN  IF ~IsSome(apiSecret) \/ Len(Get(apiSecret)) = 0
      THEN [ valid |-> FALSE,
             log   |-> << [configError |-> TRUE],
                          logAuthFailure(request, "API secret not configured", now) >> ]
      ELSE IF ~IsSome(providedKey) \/ Len(Get(providedKey)) = 0
      THEN [ valid |-> FALSE,
             log   |-> << logAuthFailure(request, "API key header missing", now) >> ]
      ELSE IF ~timingSafeCompare(Get(providedKey), Get(apiSecret))
      THEN [ valid |-> FALSE,
             log   |-> << logAuthFailure(request, "API key mismatch", now) >> ]
      ELSE [ valid |-> TRUE, log |-> << >> ]

(***************************************************************************)
(* Request validator (idGenerator.ts, lines 190-532: the validation        *)
(* module). A payload is a record whose fields are optional values; texts  *)
(* are sequences of characters, enumerated fields are strings.             *)
(***************************************************************************)
ItemTypeSchema == {"KAIDAN", "URBAN_LEGEND", "CREEPYPASTA", "CHAIN_MEME", "ORIGINAL",
                   "COMMENTARY"}
LanguageSchema == {"JA", "EN", "OTHER"}
SourceConfidenceSchema == {"PRIMARY", "SECONDARY", "UNKNOWN"}
DocStatusSchema == {"PUBLISHED", "DRAFT"}
FirstSeenEnum == {"Pre-1999", "2000s", "2010s", "2020s", "Unknown"}
MotifSchema == {"PLACE", "ROAD_TUNNEL", "FOREST_MOUNTAIN", "WATER", "ROOM_APARTMENT",
                "MISSING_PERSON", "STALKER_OBSERVER", "ENTITY", "DOPPELGANGER",
                "CHILD_FAMILY", "MEDIA_DEVICE", "RITUAL_RULES", "WARNING_CHAIN",
                "EXPERIMENT_REPORT", "IDENTITY"}
RegionSchema == {"JAPAN", "NA", "EU", "ASIA_EX_JAPAN", "GLOBAL_UNKNOWN"}
MediumSchema == {"FORUM_BBS", "SNS", "VIDEO", "WIKI_ARCHIVE", "PRINT_ORAL", "UNKNOWN"}

TITLE_MAX == 200
BODY_MAX == 100000
MOTIFS_MIN == 1
MOTIFS_MAX == 3
SOURCE_NAME_MAX == 100
FORMAT_MAX == 50
FORMATS_MAX == 10

\* strings the pattern /^\d{4}(-\d{2})?$/ of FirstSeenSchema accepts, among
\* the first-seen strings the model submits
YearPatternSamples == {"2004", "2004-01"}
\* strings z.string().url() accepts, among the URL strings the model submits
WellFormedUrls == {"https://example.com/kisaragi", "https://archive.example.com/kisaragi"}

Issue(path, message) == [path |-> path, message |-> message]

\* issues of an optional string field with a maximum length
MaxLenIssues(field, path, max, message) ==
  IF IsSome(field) /\ Len(Get(field)) > max THEN <<Issue(path, message)>> ELSE <<>>

\* issues of a required enum field
EnumIssues(field, path, schema) ==
  IF ~IsSome(field) THEN <<Issue(path, "Required")>>
  ELSE IF Get(field) \notin schema THEN <<Issue(path, "Invalid enum value")>>
  ELSE <<>>

\* issues of an optional enum field
OptionalEnumIssues(field, path, schema) ==
  IF IsSome(field) /\ Get(field) \notin schema
  THEN <<Issue(path, "Invalid enum value")>> ELSE <<>>

\* FAULTY VARIANT of Truthy: a supplied empty string counts as a value
Truthy_Supplied(field) == IsSome(field)

\* JavaScript truthiness of an optional string
Truthy(field) == IsSome(field) /\ Len(Get(field)) > 0

\* BilingualTextSchema at `path`: text is None (field missing) or Some([ja, en])
BilingualTextIssues(text, path) ==
  IF ~IsSome(text) THEN <<Issue(path, "Required")>>
  ELSE LET data == Get(text)
       IN  MaxLenIssues(data.ja, path \o ".ja", TITLE_MAX,
                        "Japanese text must not exceed 200 characters")
           \o MaxLenIssues(data.en, path \o ".en", TITLE_MAX,
                           "English text must not exceed 200 characters")
           \o (IF Truthy(data.ja) \/ Truthy(data.en) THEN <<>>
               ELSE <<Issue(path, "At least one of ja or en is required")>>)

\* BodyTextSchema at `path`
BodyTextIssues(text, path) ==
  IF ~IsSome(text) THEN <<Issue(path, "Required")>>
  ELSE LET data == Get(text)
       IN  MaxLenIssues(data.ja, path \o ".ja", BODY_MAX,
                        "Japanese body must not exceed 100,000 characters")
           \o MaxLenIssues(data.en, path \o ".en", BODY_MAX,
                           "English body must not exceed 100,000 characters")
           \o MaxLenIssues(data.original, path \o ".original", BODY_MAX,
                           "Original body must not exceed 100,000 characters")
           \o (IF Truthy(data.ja) \/ Truthy(data.en) \/ Truthy(data.original) THEN <<>>
               ELSE <<Issue(path, "At least one of ja, en, or original is required")>>)

RECURSIVE ElementIssues(_, _, _)
\* one issue at path.<index> for every element i..Len(bad) whose check failed;
\* bad[i] tells whether element i of the array fails its element schema
ElementIssues(bad, i, path) ==
  IF i > Len(bad) THEN <<>>
  ELSE (IF bad[i]
        THEN <<Issue(path \o "." \o NatToString(i - 1), "Invalid value")>>
        ELSE <<>>)
       \o ElementIssues(bad, i + 1, path)

MotifsIssues(motifs) ==
  IF ~IsSome(motifs) THEN <<Issue("motifs", "Required")>>
  ELSE LET arr == Get(motifs)
           NotMotif == [i \in 1..Len(arr) |-> arr[i] \notin MotifSchema]
       IN  (IF Len(arr) < MOTIFS_MIN
            THEN <<Issue("motifs", "At least one motif is required")>> ELSE <<>>)
           \o (IF Len(arr) > MOTIFS_MAX
               THEN <<Issue("motifs", "Maximum 3 motifs allowed")>> ELSE <<>>)
           \o ElementIssues(NotMotif, 1, "motifs")

FormatsIssues(formats) ==
  IF ~IsSome(formats) THEN <<>>
  ELSE LET arr == Get(formats)
           TooLong == [i \in 1..Len(arr) |-> Len(arr[i]) > FORMAT_MAX]
       IN  (IF Len(arr) > FORMATS_MAX
            THEN <<Issue("formats", "Maximum 10 format tags allowed")>> ELSE <<>>)
           \o ElementIssues(TooLong, 1, "formats")

FirstSeenIssues(firstSeen) ==
  IF IsSome(firstSeen) /\ Get(firstSeen) \notin (FirstSeenEnum \cup YearPatternSamples)
  THEN <<Issue("firstSeen", "Invalid input")>> ELSE <<>>

UrlIssues(url, path) ==
  IF IsSome(url) /\ Get(url) \notin WellFormedUrls
  THEN <<Issue(path, "Must be a valid URL")>> ELSE <<>>

\* the issues CreateItemRequestSchema.safeParse reports, in schema order
CreateItemRequestSchema(body) ==
  EnumIssues(body.type, "type", ItemTypeSchema)
  \o EnumIssues(body.language, "language", LanguageSchema)
  \o EnumIssues(body.confidence, "confidence", SourceConfidenceSchema)
  \o BilingualTextIssues(body.title, "title")
  \o BodyTextIssues(body.body, "body")
  \o MotifsIssues(body.motifs)
  \o OptionalEnumIssues(body.status, "status", DocStatusSchema)
  \o MaxLenIssues(body.originalTitle, "originalTitle", TITLE_MAX,
                  "Original title must not exceed 200 characters")
  \o FirstSeenIssues(body.firstSeen)
  \o MaxLenIssues(body.sourceName, "sourceName", SOURCE_NAME_MAX,
                  "Source name must not exceed 100 characters")
  \o UrlIssues(body.sourceUrl, "sourceUrl")
  \o UrlIssues(body.sourceArchiveUrl, "sourceArchiveUrl")
  \o FormatsIssues(body.formats)
  \o OptionalEnumIssues(body.region, "region", RegionSchema)
  \o OptionalEnumIssues(body.medium, "medium", MediumSchema)

\* FAULTY VARIANT of formatZodErrors: only the first issue is reported
formatZodErrors_FirstOnly(issues) ==
  IF Len(issues) = 0 THEN [p \in {} |-> ""]
  ELSE (issues[1].path :> issues[1].message)

RECURSIVE formatZodErrors(_)
\* fieldErrors[path] = message for each issue in turn: a later issue of the
\* same path replaces an earlier one
formatZodErrors(issues) ==
  IF Len(issues) = 0 THEN [p \in {} |-> ""]
  ELSE LET last == issues[Len(issues)]
       IN  (last.path :> last.message) @@ formatZodErrors(SubSeq(issues, 1, Len(issues) - 1))

\* [success, data, fields]: data is the payload with status defaulted to DRAFT
validateCreateItemRequest(body) ==
  LET issues == CreateItemRequestSchema(body)
  IN  IF Len(issues) > 0
      THEN [ success |-> FALSE, data |-> body, message |-> "Invalid request data",
             fields |-> formatZodErrors(issues) ]
      ELSE [ success |-> TRUE,
             data |-> [body EXCEPT !.status = IF IsSome(@) THEN @ ELSE Some("DRAFT")],
             message |-> "",
             fields |-> [p \in {} |-> ""] ]

(***************************************************************************)
(* Sequential ID allocator (idGenerator.ts, lines 1-188)                   *)
(* A stored count is [t, v]: t is the JavaScript kind of the value         *)
(* ("int" an integer number, "fraction" a non-integer number, "nan",       *)
(* "string"), v its value when it is an integer.                           *)
(* The counter document is [exists, count, lastUpdated, manuallySet];      *)
(* count is None when the document has no count field.                     *)
(***************************************************************************)
IntVal(n) == [t |-> "int", v |-> n]
NonInteger == [t |-> "fraction", v |-> 0]
NotANumber == [t |-> "nan", v |-> 0]
StringVal == [t |-> "string", v |-> 0]

NoCounter == [exists |-> FALSE, count |-> None, lastUpdated |-> 0, manuallySet |-> FALSE]

\* typeof x === 'number'
IsNumber(x) == x.t \in {"int", "fraction", "nan"}
\* Number.isInteger(x)
IsInteger(x) == x.t = "int"

\* FAULTY VARIANT of generateItemId_update: the overflow test admits 1000000
generateItemId_update_OffByOne(counterDoc, now) ==
  LET currentCount == IF ~counterDoc.exists THEN IntVal(0)
                      ELSE IF IsSome(counterDoc.count) THEN Get(counterDoc.count)
                      ELSE IntVal(0)
  IN  IF counterDoc.exists /\ (~IsNumber(currentCount) \/ ~IsInteger(currentCount))
      THEN [ error |-> Some("Invalid counter value in database"),
             doc |-> counterDoc, id |-> "" ]
      ELSE LET newCount == currentCount.v + 1
           IN  IF newCount > MAX_COUNT + 1
               THEN [ error |-> Some("ID counter overflow: maximum capacity reached"),
                      doc |-> counterDoc, id |-> "" ]
               ELSE [ error |-> None,
                      doc |-> [ exists |-> TRUE, count |-> Some(IntVal(newCount)),
                                lastUpdated |-> now,
                                manuallySet |-> counterDoc.manuallySet ],
                      id |-> formatItemId(newCount) ]

\* the update function passed to db.runTransaction, applied to the counter
\* document that transaction.get returned: the error it throws, or the
\* document it sets (merge: true keeps manuallySet) and the ID it returns
generateItemId_update(counterDoc, now) ==
  LET currentCount == IF ~counterDoc.exists THEN IntVal(0)
                      ELSE IF IsSome(counterDoc.count) THEN Get(counterDoc.count)
                      ELSE IntVal(0)
  IN  IF counterDoc.exists /\ (~IsNumber(currentCount) \/ ~IsInteger(currentCount))
      THEN [ error |-> Some("Invalid counter value in database"),
             doc |-> counterDoc, id |-> "" ]
      ELSE LET newCount == currentCount.v + 1
           IN  IF newCount > MAX_COUNT
               THEN [ error |-> Some("ID counter overflow: maximum capacity reached"),
                      doc |-> counterDoc, id |-> "" ]
               ELSE [ error |-> None,
                      doc |-> [ exists |-> TRUE, count |-> Some(IntVal(newCount)),
                                lastUpdated |-> now,
                                manuallySet |-> counterDoc.manuallySet ],
                      id |-> formatItemId(newCount) ]

\* setCounter(count): the error it throws, or the document it sets
setCounter(count, now) ==
  IF ~IsInteger(count) \/ count.v < 0 \/ count.v > MAX_COUNT
  THEN [ error |-> Some("Counter must be an integer between 0 and 999999"),
         doc |-> NoCounter ]
  ELSE [ error |-> None,
         doc |-> [ exists |-> TRUE, count |-> Some(count), lastUpdated |-> now,
                   manuallySet |-> TRUE ] ]

(***************************************************************************)
(* Search tokens (searchTokens.ts).  A text is a sequence of characters,   *)
(* each a string naming one character; the alphabet holds ASCII letters,   *)
(* digits and symbols, Japanese letters, whitespace, and compatibility     *)
(* characters that NFKC maps to other characters.                          *)
(***************************************************************************)
UpperCase == <<"A", "B", "C", "D", "E", "F", "G", "H", "I", "J", "K", "L", "M",
               "N", "O", "P", "Q", "R", "S", "T", "U", "V", "W", "X", "Y", "Z">>
LowerCase == <<"a", "b", "c", "d", "e", "f", "g", "h", "i", "j", "k", "l", "m",
               "n", "o", "p", "q", "r", "s", "t", "u", "v", "w", "x", "y", "z">>
Digits == <<"0", "1", "2", "3", "4", "5", "6", "7", "8", "9">>
\* the hiragana letters KU and NE, written by their code point
HiraganaKu == "U+304F"
HiraganaNe == "U+306D"
\* U+304F, U+306D, U+30B9, U+30C6, U+30C8, U+5185, U+5BB9
JapaneseLetters == <<HiraganaKu, HiraganaNe, "ス", "テ", "ト", "内", "容">>
\* characters written by their code point: U+2121 TELEPHONE SIGN, U+3000
\* IDEOGRAPHIC SPACE, U+FF11 FULLWIDTH DIGIT ONE, U+FF21 and U+FF41 FULLWIDTH
\* LATIN CAPITAL and SMALL LETTER A
TelSign == "U+2121"
IdeographicSpace == "U+3000"
FullwidthOne == "U+FF11"
FullwidthUpperA == "U+FF21"
FullwidthLowerA == "U+FF41"

\* the characters of the alphabet in increasing order of their UTF-16 code
\* unit, the order of Array.prototype.sort() on strings
CodeOrder ==
  <<" ", "(", ")", "-">> \o Digits \o UpperCase \o <<"_">> \o LowerCase
    \o <<TelSign, IdeographicSpace>> \o JapaneseLetters
    \o <<FullwidthOne, FullwidthUpperA, FullwidthLowerA>>

Range(s) == {s[i] : i \in DOMAIN s}
IndexOf(c, s) == CHOOSE i \in DOMAIN s : s[i] = c
CodeUnitOf == [c \in Range(CodeOrder) |-> IndexOf(c, CodeOrder)]
CodeUnit(c) == CodeUnitOf[c]

\* the characters of a string value (an id, a motif name)
Chars(str) == [i \in 1..Len(str) |-> SubSeq(str, i, i)]

\* String.prototype.toLowerCase, one character
toLowerCase(c) ==
  IF c \in Range(UpperCase) THEN LowerCase[IndexOf(c, UpperCase)]
  ELSE IF c = FullwidthUpperA THEN FullwidthLowerA
  ELSE c

\* String.prototype.normalize('NFKC'), one character: its compatibility
\* decomposition, canonically composed
NFKC(c) ==
  CASE c = FullwidthUpperA -> <<"A">>
    [] c = FullwidthLowerA -> <<"a">>
    [] c = FullwidthOne -> <<"1">>
    [] c = IdeographicSpace -> <<" ">>
    [] c = TelSign -> <<"T", "E", "L">>
    [] OTHER -> <<c>>

\* \p{L}, \p{N} and \s of the regular expressions
IsLetter(c) ==
  c \in Range(UpperCase) \cup Range(LowerCase) \cup Range(JapaneseLetters)
          \cup {FullwidthUpperA, FullwidthLowerA}
IsDigit(c) == c \in Range(Digits) \cup {FullwidthOne}
IsSpace(c) == c \in {" ", IdeographicSpace}
KeptByNormalize(c) == IsLetter(c) \/ IsDigit(c) \/ IsSpace(c)

RECURSIVE Flatten(_)
Flatten(ss) == IF ss = <<>> THEN <<>> ELSE Head(ss) \o Flatten(Tail(ss))

\* .replace(/\s+/g, ' '): every run of whitespace becomes one space
RECURSIVE CollapseSpaces(_)
CollapseSpaces(s) ==
  IF s = <<>> THEN <<>>
  ELSE IF IsSpace(Head(s))
  THEN IF Len(s) > 1 /\ IsSpace(s[2]) THEN CollapseSpaces(Tail(s))
       ELSE <<" ">> \o CollapseSpaces(Tail(s))
  ELSE <<Head(s)>> \o CollapseSpaces(Tail(s))

\* String.prototype.trim
RECURSIVE TrimStart(_)
TrimStart(s) == IF s # <<>> /\ IsSpace(Head(s)) THEN TrimStart(Tail(s)) ELSE s
RECURSIVE TrimEnd(_)
TrimEnd(s) ==
  IF s # <<>> /\ IsSpace(s[Len(s)]) THEN TrimEnd(SubSeq(s, 1, Len(s) - 1)) ELSE s
Trim(s) == TrimEnd(TrimStart(s))

normalizeText(text) ==
  LET lowered    == [i \in 1..Len(text) |-> toLowerCase(text[i])]
      normalized == Flatten([i \in 1..Len(lowered) |-> NFKC(lowered[i])])
      stripped   == SelectSeq(normalized, KeptByNormalize)
  IN  Trim(CollapseSpaces(stripped))

\* [...new Set(tokens)]: the first occurrence of each element, in order
Unique(s) ==
  LET firsts == SelectSeq([i \in 1..Len(s) |-> i],
                          LAMBDA i : \A j \in 1..(i - 1) : s[j] # s[i])
  IN  [k \in 1..Len(firsts) |-> s[firsts[k]]]

\* text.split(' ')
RECURSIVE SplitOnSpace(_, _)
SplitOnSpace(s, word) ==
  IF s = <<>> THEN <<word>>
  ELSE IF Head(s) = " " THEN <<word>> \o SplitOnSpace(Tail(s), <<>>)
  ELSE SplitOnSpace(Tail(s), Append(word, Head(s)))

NonEmptyText(w) == Len(w) > 0

Min(a, b) == IF a < b THEN a ELSE b

\* the prefixes of `word` of the lengths minLength .. min(max, word.length)
WordPrefixes(word, minLength, max) ==
  LET top == Min(max, Len(word))
  IN  IF top < minLength THEN <<>>
      ELSE [k \in 1..(top - minLength + 1) |-> SubSeq(word, 1, minLength + k - 1)]

\* maxLength is None when the caller leaves it out
generatePrefixTokens(text, minLength, maxLength) ==
  LET normalizedText == normalizeText(text)
  IN  IF normalizedText = <<>> THEN <<>>
      ELSE LET words == SelectSeq(SplitOnSpace(normalizedText, <<>>), NonEmptyText)
               tokens == Flatten([w \in 1..Len(words) |->
                            WordPrefixes(words[w], minLength,
                                         IF IsSome(maxLength) THEN Get(maxLength)
                                         ELSE Len(words[w]))])
           IN  Unique(tokens)

\* item.id.replace(/^DTA-/, '')
StripIdPrefix(id) ==
  LET prefix == Chars(ID_PREFIX \o "-")
  IN  IF Len(id) >= Len(prefix) /\ SubSeq(id, 1, Len(prefix)) = prefix
      THEN SubSeq(id, Len(prefix) + 1, Len(id))
      ELSE id

\* `if (x) seeds.push(x)` for an optional text
SeedOf(field) == IF IsSome(field) /\ Len(Get(field)) > 0 THEN <<Get(field)>> ELSE <<>>

SeedKept(s) == Len(s) > 0 /\ Len(Trim(s)) > 0

\* item: [id, title, originalTitle, sourceName, motifs], id and motifs as
\* string values
extractSeeds(item) ==
  LET id == Chars(item.id)
      numericPart == StripIdPrefix(id)
      idSeeds == IF Len(id) > 0
                 THEN <<id>> \o (IF Len(numericPart) > 0 THEN <<numericPart>> ELSE <<>>)
                 ELSE <<>>
      motifSeeds == [i \in 1..Len(item.motifs) |-> Chars(item.motifs[i])]
      seeds == idSeeds \o SeedOf(item.title.ja) \o SeedOf(item.title.en)
                 \o SeedOf(item.originalTitle) \o SeedOf(item.sourceName) \o motifSeeds
  IN  SelectSeq(seeds, SeedKept)

\* the prefix length generateSearchTokens stops at
MAX_PREFIX_LENGTH == 10

\* the order of Array.prototype.sort() without a comparator
RECURSIVE CodeUnitLess(_, _)
CodeUnitLess(a, b) ==
  IF a = <<>> THEN b # <<>>
  ELSE IF b = <<>> THEN FALSE
  ELSE IF Head(a) = Head(b) THEN CodeUnitLess(Tail(a), Tail(b))
  ELSE CodeUnit(Head(a)) < CodeUnit(Head(b))

\* FAULTY VARIANT of SeedTokens: the whole normalized seed is not emitted
SeedTokens_PrefixesOnly(seed) ==
  generatePrefixTokens(seed, 1, Some(MAX_PREFIX_LENGTH))

\* the tokens of one seed: its normalized form, then its prefix tokens
SeedTokens(seed) ==
  LET normalized == normalizeText(seed)
  IN  (IF normalized # <<>> THEN <<normalized>> ELSE <<>>)
        \o generatePrefixTokens(seed, 1, Some(MAX_PREFIX_LENGTH))

generateSearchTokens(item) ==
  LET seeds == extractSeeds(item)
      allTokens == Flatten([i \in 1..Len(seeds) |-> SeedTokens(seeds[i])])
      uniqueTokens == SelectSeq(Unique(allTokens), NonEmptyText)
  IN  SortSeq(uniqueTokens, CodeUnitLess)

(***************************************************************************)
(* Item service (createItem) and the seeding script                        *)
(***************************************************************************)
\* `if (data.x) itemDoc.x = data.x`: an optional string is kept when truthy
KeepTruthy(field) == IF Truthy(field) THEN field ELSE None

\* the part of the item generateSearchTokens reads (itemForTokens)
itemForTokens(id, data) ==
  [ id |-> id, title |-> Get(data.title), originalTitle |-> data.originalTitle,
    sourceName |-> data.sourceName, motifs |-> Get(data.motifs) ]

ValidPayload ==
  [ type |-> Some("KAIDAN"), language |-> Some("JA"), confidence |-> Some("PRIMARY"),
    title |-> Some([ja |-> Some(<<"テ", "ス", "ト">>), en |-> None]),
    body |-> Some([ja |-> Some(<<"内", "容">>), en |-> None, original |-> None]),
    motifs |-> Some(<<"ENTITY">>),
    status |-> None, originalTitle |-> None, firstSeen |-> None, sourceName |-> None,
    sourceUrl |-> None, sourceArchiveUrl |-> None, formats |-> None, region |-> None,
    medium |-> None ]

\* generateSearchTokens for the items the creation paths store most often
\* (ValidPayload under the first ids), worked out once
TokensOfValidPayload ==
  [ item \in { itemForTokens(formatItemId(n), validateCreateItemRequest(ValidPayload).data) :
                 n \in 1..(2 * MaxStarted + 2) } |-> generateSearchTokens(item) ]

\* generateSearchTokens(item), looked up when it is already worked out
searchTokensOf(item) ==
  IF item \in DOMAIN TokensOfValidPayload THEN TokensOfValidPayload[item]
  ELSE generateSearchTokens(item)

\* FAULTY VARIANT of itemDoc: the tokens are computed before the id is known
\* and updatedAt is stamped separately from createdAt
itemDoc_Unstamped(id, data, now) ==
  [ id               |-> id,
    type             |-> Get(data.type),
    language         |-> Get(data.language),
    confidence       |-> Get(data.confidence),
    title            |-> Get(data.title),
    body             |-> Get(data.body),
    motifs           |-> Get(data.motifs),
    status           |-> Get(data.status),
    searchTokens     |-> generateSearchTokens(itemForTokens("", data)),
    annotationCount  |-> 0,
    revisionCount    |-> 0,
    createdAt        |-> now,
    updatedAt        |-> now + 1,
    originalTitle    |-> KeepTruthy(data.originalTitle),
    firstSeen        |-> KeepTruthy(data.firstSeen),
    sourceName       |-> KeepTruthy(data.sourceName),
    sourceUrl        |-> KeepTruthy(data.sourceUrl),
    sourceArchiveUrl |-> KeepTruthy(data.sourceArchiveUrl),
    formats          |-> IF IsSome(data.formats) /\ Len(Get(data.formats)) > 0
                         THEN data.formats ELSE None,
    region           |-> data.region,
    medium           |-> data.medium ]

\* the document createItem writes under `id` for validated `data` at `now`
itemDoc(id, data, now) ==
  [ id               |-> id,
    type             |-> Get(data.type),
    language         |-> Get(data.language),
    confidence       |-> Get(data.confidence),
    title            |-> Get(data.title),
    body             |-> Get(data.body),
    motifs           |-> Get(data.motifs),
    status           |-> Get(data.status),
    searchTokens     |-> searchTokensOf(itemForTokens(id, data)),
    annotationCount  |-> 0,
    revisionCount    |-> 0,
    createdAt        |-> now,
    updatedAt        |-> now,
    originalTitle    |-> KeepTruthy(data.originalTitle),
    firstSeen        |-> KeepTruthy(data.firstSeen),
    sourceName       |-> KeepTruthy(data.sourceName),
    sourceUrl        |-> KeepTruthy(data.sourceUrl),
    sourceArchiveUrl |-> KeepTruthy(data.sourceArchiveUrl),
    formats          |-> IF IsSome(data.formats) /\ Len(Get(data.formats)) > 0
                         THEN data.formats ELSE None,
    region           |-> data.region,
    medium           |-> data.medium ]

\* the sequence numbers of the four mockItems of scripts/seed-firestore.ts
SeedNumbers == {1, 2, 3, 128}

mockItem(n) ==
  [ id |-> formatItemId(n),
    type |-> CASE n = 1 -> "KAIDAN" [] n = 2 -> "URBAN_LEGEND" [] n = 3 -> "CREEPYPASTA"
               [] OTHER -> "KAIDAN",
    language |-> IF n \in {1, 128} THEN "JA" ELSE "EN",
    confidence |-> IF n \in {1, 3} THEN "PRIMARY" ELSE "SECONDARY",
    title |-> CASE n = 1 -> [ja |-> None, en |-> Some(<<"K", "o", "t", "o", "r", "i", " ", "B", "o", "x">>)]
                [] n = 2 -> [ja |-> None, en |-> Some(<<"T", "h", "e", " ", "B", "a", "c", "k", "r", "o", "o", "m", "s">>)]
                [] n = 3 -> [ja |-> None, en |-> Some(<<"B", "e", "n", " ", "D", "r", "o", "w", "n", "e", "d">>)]
                [] OTHER -> [ja |-> None, en |-> Some(<<"K", "i", "s", "a", "r", "a", "g", "i", " ", "S", "t", "a", "t", "i", "o", "n">>)],
    motifs |-> CASE n = 1 -> <<"RITUAL_RULES", "ENTITY">>
                 [] n = 2 -> <<"PLACE", "ROOM_APARTMENT">>
                 [] n = 3 -> <<"MEDIA_DEVICE", "ENTITY", "DOPPELGANGER">>
                 [] OTHER -> <<"PLACE", "MISSING_PERSON">>,
    firstSeen |-> Some(IF n \in {1, 128} THEN "2000s" ELSE "2010s"),
    annotationCount |-> CASE n = 1 -> 3 [] n = 2 -> 5 [] n = 3 -> 8 [] OTHER -> 12,
    revisionCount |-> CASE n = 1 -> 2 [] n = 2 -> 1 [] n = 3 -> 3 [] OTHER -> 5,
    status |-> "PUBLISHED" ]

\* seedItems: batch.set of every mock item, stamped with the current time
seedItems(items, now) ==
  LET seeded == [id \in {formatItemId(n) : n \in SeedNumbers} |->
                   LET n == CHOOSE k \in SeedNumbers : formatItemId(k) = id
                   IN  [createdAt |-> now, updatedAt |-> now] @@ mockItem(n)]
  IN  seeded @@ items

(***************************************************************************)
(* Catalog queries (queries.ts, lines 313-642, and getPublishedItems).      *)
(* A list of items is a sequence of documents; a filter is None (not       *)
(* given) or Some(list of requested values).                               *)
(***************************************************************************)
DEFAULT_LIMIT == 20
DEFAULT_OFFSET == 0
DEFAULT_SORT == [field |-> "updatedAt", order |-> "desc"]
UNRANKED_ERA == 99

\* the order of orderBy('updatedAt', 'desc'): later documents first, documents
\* of one instant by decreasing document name
OrderedBefore(store, a, b) ==
  \/ store[a].updatedAt > store[b].updatedAt
  \/ store[a].updatedAt = store[b].updatedAt /\ CodeUnitLess(Chars(b), Chars(a))

\* FAULTY VARIANT of getPublishedItems: the whole collection, as getAllItems
getPublishedItems_AllItems(store) ==
  LET ids == DOMAIN store
      rank == [i \in ids |-> Cardinality({o \in ids : OrderedBefore(store, o, i)})]
  IN  [k \in 1..Cardinality(ids) |->
         LET id == CHOOSE i \in ids : rank[i] = k - 1
         IN  [store[id] EXCEPT !.id = id]]

\* query(items, where('status', '==', 'PUBLISHED'), orderBy('updatedAt', 'desc'))
getPublishedItems(store) ==
  LET ids == {i \in DOMAIN store : store[i].status = "PUBLISHED"}
      rank == [i \in ids |-> Cardinality({o \in ids : OrderedBefore(store, o, i)})]
  IN  [k \in 1..Cardinality(ids) |->
         LET id == CHOOSE i \in ids : rank[i] = k - 1
         IN  [store[id] EXCEPT !.id = id]]

\* Array.prototype.includes
Includes(list, v) == \E i \in 1..Len(list) : list[i] = v

\* a filter that is given and names at least one value
Requested(filter) == IsSome(filter) /\ Len(Get(filter)) > 0

\* String.prototype.startsWith
StartsWith(token, prefix) ==
  Len(prefix) <= Len(token) /\ SubSeq(token, 1, Len(prefix)) = prefix

normalizeSearchQuery(query) == normalizeText(query)

matchesSearchQuery(searchTokens, query) ==
  LET normalizedQuery == normalizeSearchQuery(query)
  IN  IF normalizedQuery = <<>> THEN TRUE
      ELSE \E i \in 1..Len(searchTokens) :
             searchTokens[i] = normalizedQuery \/ StartsWith(searchTokens[i], normalizedQuery)

\* FAULTY VARIANT of applyFilters: the motif filter asks for every requested
\* motif instead of any
applyFilters_EveryMotif(list, filters) ==
  LET byType == IF Requested(filters.type)
                THEN SelectSeq(list, LAMBDA item : Includes(Get(filters.type), item.type))
                ELSE list
      byConfidence == IF Requested(filters.confidence)
                      THEN SelectSeq(byType, LAMBDA item :
                             Includes(Get(filters.confidence), item.confidence))
                      ELSE byType
      byLanguage == IF Requested(filters.language)
                    THEN SelectSeq(byConfidence, LAMBDA item :
                           Includes(Get(filters.language), item.language))
                    ELSE byConfidence
      byFirstSeen == IF Requested(filters.firstSeen)
                     THEN SelectSeq(byLanguage, LAMBDA item :
                            /\ "firstSeen" \in DOMAIN item
                            /\ IsSome(item.firstSeen)
                            /\ Includes(Get(filters.firstSeen), Get(item.firstSeen)))
                     ELSE byLanguage
      byMotif == IF Requested(filters.motif)
                 THEN SelectSeq(byFirstSeen, LAMBDA item :
                        /\ "motifs" \in DOMAIN item
                        /\ \A i \in 1..Len(Get(filters.motif)) :
                             Includes(item.motifs, Get(filters.motif)[i]))
                 ELSE byFirstSeen
  IN  IF IsSome(filters.search) /\ Trim(Get(filters.search)) # <<>>
      THEN LET normalizedQuery == normalizeSearchQuery(Get(filters.search))
           IN  SelectSeq(byMotif, LAMBDA item :
                 /\ "searchTokens" \in DOMAIN item
                 /\ matchesSearchQuery(item.searchTokens, normalizedQuery))
      ELSE byMotif

applyFilters(list, filters) ==
  LET byType == IF Requested(filters.type)
                THEN SelectSeq(list, LAMBDA item : Includes(Get(filters.type), item.type))
                ELSE list
      byConfidence == IF Requested(filters.confidence)
                      THEN SelectSeq(byType, LAMBDA item :
                             Includes(Get(filters.confidence), item.confidence))
                      ELSE byType
      byLanguage == IF Requested(filters.language)
                    THEN SelectSeq(byConfidence, LAMBDA item :
                           Includes(Get(filters.language), item.language))
                    ELSE byConfidence
      byFirstSeen == IF Requested(filters.firstSeen)
                     THEN SelectSeq(byLanguage, LAMBDA item :
                            /\ "firstSeen" \in DOMAIN item
                            /\ IsSome(item.firstSeen)
                            /\ Includes(Get(filters.firstSeen), Get(item.firstSeen)))
                     ELSE byLanguage
      byMotif == IF Requested(filters.motif)
                 THEN SelectSeq(byFirstSeen, LAMBDA item :
                        /\ "motifs" \in DOMAIN item
                        /\ \E i \in 1..Len(item.motifs) :
                             Includes(Get(filters.motif), item.motifs[i]))
                 ELSE byFirstSeen
  IN  IF IsSome(filters.search) /\ Trim(Get(filters.search)) # <<>>
      THEN LET normalizedQuery == normalizeSearchQuery(Get(filters.search))
           IN  SelectSeq(byMotif, LAMBDA item :
                 /\ "searchTokens" \in DOMAIN item
                 /\ matchesSearchQuery(item.searchTokens, normalizedQuery))
      ELSE byMotif

\* toDate().getTime() of a stored timestamp: its milliseconds
getTimestamp(value) == value

eraOrder(firstSeen) ==
  CASE firstSeen = "Pre-1999" -> 1
    [] firstSeen = "2000s"    -> 2
    [] firstSeen = "2010s"    -> 3
    [] firstSeen = "2020s"    -> 4
    [] firstSeen = "Unknown"  -> 5
    [] OTHER                  -> UNRANKED_ERA

eraOf(item) ==
  IF "firstSeen" \in DOMAIN item /\ Truthy(item.firstSeen)
  THEN eraOrder(Get(item.firstSeen)) ELSE UNRANKED_ERA

\* the comparator handed to sorted.sort()
comparison(a, b, field, order) ==
  LET c == CASE field = "updatedAt" -> getTimestamp(a.updatedAt) - getTimestamp(b.updatedAt)
             [] field = "createdAt" -> getTimestamp(a.createdAt) - getTimestamp(b.createdAt)
             [] field = "firstSeen" -> eraOf(a) - eraOf(b)
             [] field = "annotationCount" -> a.annotationCount - b.annotationCount
             [] OTHER -> 0
  IN  IF order = "desc" THEN 0 - c ELSE c

\* FAULTY VARIANT of applySorting: a descending sort is the ascending one
\* reversed
applySorting_ReverseForDesc(list, field, order) ==
  LET Precedes(i, j) ==
        \/ comparison(list[i], list[j], field, "asc") < 0
        \/ comparison(list[i], list[j], field, "asc") = 0 /\ i < j
      rank == [i \in 1..Len(list) |-> Cardinality({j \in 1..Len(list) : Precedes(j, i)})]
      ascending == [k \in 1..Len(list) |-> list[CHOOSE i \in 1..Len(list) : rank[i] = k - 1]]
  IN  IF order = "desc"
      THEN [k \in 1..Len(list) |-> ascending[Len(list) + 1 - k]]
      ELSE ascending

\* [...items].sort(comparator): the sort is stable
applySorting(list, field, order) ==
  LET Precedes(i, j) ==
        \/ comparison(list[i], list[j], field, order) < 0
        \/ comparison(list[i], list[j], field, order) = 0 /\ i < j
      rank == [i \in 1..Len(list) |-> Cardinality({j \in 1..Len(list) : Precedes(j, i)})]
  IN  [k \in 1..Len(list) |-> list[CHOOSE i \in 1..Len(list) : rank[i] = k - 1]]

\* Array.prototype.slice(start, end)
slice(list, start, end) ==
  LET len  == Len(list)
      from == IF start < 0 THEN Max(len + start, 0) ELSE Min(start, len)
      to   == IF end < 0 THEN Max(len + end, 0) ELSE Min(end, len)
  IN  IF to <= from THEN <<>> ELSE SubSeq(list, from + 1, to)

NoFilters ==
  [ type |-> None, confidence |-> None, language |-> None, firstSeen |-> None,
    motif |-> None, search |-> None ]

\* FAULTY VARIANT of queryCatalogItems: hasMore compares with <=
queryCatalogItems_HasMoreInclusive(store, options) ==
  LET filters  == IF IsSome(options.filters) THEN Get(options.filters) ELSE NoFilters
      sort     == IF IsSome(options.sort) THEN Get(options.sort) ELSE DEFAULT_SORT
      limit    == IF IsSome(options.limit) THEN Get(options.limit) ELSE DEFAULT_LIMIT
      offset   == IF IsSome(options.offset) THEN Get(options.offset) ELSE DEFAULT_OFFSET
      filtered == applyFilters(getPublishedItems(store), filters)
      total    == Len(filtered)
      sorted   == applySorting(filtered, sort.field, sort.order)
  IN  [ items   |-> slice(sorted, offset, offset + limit),
        total   |-> total,
        hasMore |-> offset + limit <= total ]

queryCatalogItems(store, options) ==
  LET filters  == IF IsSome(options.filters) THEN Get(options.filters) ELSE NoFilters
      sort     == IF IsSome(options.sort) THEN Get(options.sort) ELSE DEFAULT_SORT
      limit    == IF IsSome(options.limit) THEN Get(options.limit) ELSE DEFAULT_LIMIT
      offset   == IF IsSome(options.offset) THEN Get(options.offset) ELSE DEFAULT_OFFSET
      filtered == applyFilters(getPublishedItems(store), filters)
      total    == Len(filtered)
      sorted   == applySorting(filtered, sort.field, sort.order)
  IN  [ items   |-> slice(sorted, offset, offset + limit),
        total   |-> total,
        hasMore |-> offset + limit < total ]

\* counts[key] = (counts[key] || 0) + 1
Increment(counts, key) ==
  IF key \in DOMAIN counts THEN [counts EXCEPT ![key] = @ + 1] ELSE (key :> 1) @@ counts

RECURSIVE countMotifs(_, _)
countMotifs(counts, motifs) ==
  IF motifs = <<>> THEN counts
  ELSE countMotifs(Increment(counts, Head(motifs)), Tail(motifs))

EmptyCounts == [v \in {} |-> 0]

RECURSIVE facetLoop(_, _)
\* the loop of getFacetCounts over sourceItems
facetLoop(counts, sourceItems) ==
  IF sourceItems = <<>> THEN counts
  ELSE LET item == Head(sourceItems)
       IN  facetLoop(
             [ type       |-> Increment(counts.type, item.type),
               confidence |-> Increment(counts.confidence, item.confidence),
               language   |-> Increment(counts.language, item.language),
               firstSeen  |-> IF "firstSeen" \in DOMAIN item /\ Truthy(item.firstSeen)
                              THEN Increment(counts.firstSeen, Get(item.firstSeen))
                              ELSE counts.firstSeen,
               motif      |-> IF "motifs" \in DOMAIN item
                              THEN countMotifs(counts.motif, item.motifs)
                              ELSE counts.motif ],
             Tail(sourceItems))

\* getFacetCounts(items): items is None when the argument is left out
getFacetCounts(store, list) ==
  LET sourceItems == IF IsSome(list) THEN Get(list) ELSE getPublishedItems(store)
  IN  facetLoop([ type |-> EmptyCounts, confidence |-> EmptyCounts,
                  language |-> EmptyCounts, firstSeen |-> EmptyCounts,
                  motif |-> EmptyCounts ], sourceItems)

(***************************************************************************)
(* State                                                                   *)
(***************************************************************************)
VARIABLES
  env,             \* process.env: NODE_ENV, the API secret, the rate-limit settings
  now,             \* Date.now(), in milliseconds
  clockSteps,      \* how many times the clock was advanced
  rateLimitStore,  \* the module-level Map of rateLimit.ts
  lastCleanup,     \* the module-level lastCleanup of rateLimit.ts
  lastCheck,       \* the latest checkRateLimit call: None or Some([ip, at, result])
  window,          \* per client, the window the calls fall in and the call's rank in it
  calls,           \* how many checkRateLimit calls were made directly
  counter,         \* the Firestore document /counters/items
  items,           \* the Firestore collection /items: document id -> document
  req,             \* the requests in progress, one record per slot
  started          \* how many requests were started

vars == << env, now, clockSteps, rateLimitStore, lastCleanup, lastCheck, window, calls,
           counter, items, req, started >>

rateVars == << rateLimitStore, lastCleanup, lastCheck, window >>

(***************************************************************************)
(* Inputs                                                                  *)
(***************************************************************************)
RestSlots == {"r1"}
McpSlots == {"m1"}
Slots == RestSlots \cup McpSlots
\* callers that await generateItemId() on its own (the function is exported)
Callers == {"c1", "c2", "c3"}
\* callers that await validateApiKey() on its own (the function is exported)
AuthSlots == {"a1"}
\* callers of queryCatalogItems() and getFacetCounts()
QuerySlots == {"q1"}
\* callers of validateCreateItemRequest()
ValidateSlots == {"v1"}
\* callers of normalizeText(), generateSearchTokens() and matchesSearchQuery()
TextSlots == {"t1"}
AllSlots ==
  Slots \cup Callers \cup AuthSlots \cup QuerySlots \cup ValidateSlots \cup TextSlots

\* the intervals by which the clock is advanced
ClockSteps == {500, 2500}
\* the same for the runs that exercise the limiter alone
RateClockSteps == {500, 2000, CLEANUP_INTERVAL_MS}

ClientA == "203.0.113.7"
Secret == <<7, 3>>
WrongKey == <<7, 4>>

\* title {} and no motif: two fields violate the schema
InvalidPayload ==
  [ValidPayload EXCEPT !.title = Some([ja |-> None, en |-> None]), !.motifs = Some(<<>>)]

\* request bodies: None is a body request.json() cannot parse
Bodies == {None, Some(ValidPayload), Some(InvalidPayload)}

RestRequests ==
  [ method : {"POST"}, path : {"/api/v1/items"},
    xForwardedFor : {Some(ClientA)}, xRealIp : {None},
    apiKey : {Some(Secret), Some(WrongKey)},
    json : Bodies ]

\* arguments of a create_folklore_item tool call: None is a call without arguments
McpArguments == Bodies

\* values setCounter is called with
SetCounterInputs == {IntVal(0), IntVal(MAX_COUNT), IntVal(-1)}

IdleReq ==
  [ pc |-> "idle", kind |-> "", request |-> None, rl |-> None, data |-> None,
    snap |-> NoCounter, stale |-> FALSE, id |-> "", response |-> None,
    passed |-> <<>>, effects |-> {}, failedAt |-> "", thrown |-> None,
    retried |-> FALSE, logged |-> FALSE ]

Environments ==
  [ NODE_ENV : {"production", "development"},
    apiSecret : {Some(Secret)},
    windowMs : {Some(2500)},
    maxRequests : {Some(1)} ]

\* rate-limit settings of the runs that exercise the limiter alone; None
\* leaves the default in force
RateEnvironments ==
  [ NODE_ENV : {"production"},
    apiSecret : {Some(Secret)},
    windowMs : {Some(2000), Some(2500)},
    maxRequests : {Some(1), Some(2)} ]

\* requests that differ in the headers getClientIp reads
RateRequests ==
  [ method : {"POST"}, path : {"/api/v1/items"},
    xForwardedFor : {None, Some(ClientA)}, xRealIp : {None, Some(ClientA)},
    apiKey : {None}, json : {None} ]

\* counter documents the allocator may find: absent, without a count field,
\* legitimate counts and counts that are not non-negative integers
CounterCounts ==
  { None, Some(IntVal(0)), Some(IntVal(1)), Some(IntVal(MAX_COUNT - 2)),
    Some(IntVal(MAX_COUNT - 1)), Some(IntVal(MAX_COUNT)),
    Some(IntVal(-1)), Some(IntVal(-5)), Some(NonInteger), Some(NotANumber),
    Some(StringVal) }

CounterDocs ==
  {NoCounter} \cup
  { [exists |-> TRUE, count |-> c, lastUpdated |-> 0, manuallySet |-> FALSE] :
      c \in CounterCounts }

InitCommon ==
  /\ now = 0
  /\ clockSteps = 0
  /\ rateLimitStore = [ip \in {} |-> 0]
  /\ lastCleanup = 0
  /\ lastCheck = None
  /\ window = [ip \in {} |-> 0]
  /\ calls = 0
  /\ items = [id \in {} |-> 0]
  /\ req = [r \in AllSlots |-> IdleReq]
  /\ started = 0

Init ==
  /\ InitCommon
  /\ env \in Environments
  /\ counter = NoCounter

\* secrets the deployment may be configured with: none, the empty string,
\* ASCII ones, and one with a character outside Latin-1
AuthSecrets == {None, Some(<<>>), Some(Secret), Some(<<7, 3, 5>>), Some(<<233>>),
                Some(<<12354>>)}

\* X-API-Key values a request may carry (a header value is a byte string):
\* absent, empty, the secrets, a prefix and an extension of Secret, and the
\* two Latin-1 characters whose code points are the UTF-8 bytes of U+00E9
AuthKeys == {None, Some(<<>>), Some(Secret), Some(WrongKey), Some(<<7>>),
             Some(<<7, 3, 5>>), Some(<<233>>), Some(<<195, 169>>)}

AuthEnvironments ==
  [ NODE_ENV : {"production"},
    apiSecret : AuthSecrets,
    windowMs : {None},
    maxRequests : {None} ]

AuthRequests ==
  [ method : {"POST", "GET"}, path : {"/api/v1/items", "/api/v1/items/DTA-000001"},
    xForwardedFor : {None}, xRealIp : {None},
    apiKey : AuthKeys,
    json : {None} ]

\* the authenticator alone, under each configured secret
InitAuth ==
  /\ InitCommon
  /\ env \in AuthEnvironments
  /\ counter = NoCounter

\* payloads of the items the catalog holds at the start
PublishedPayload ==
  [ValidPayload EXCEPT !.status = Some("PUBLISHED"), !.firstSeen = Some("2000s"),
                       !.motifs = Some(<<"ENTITY", "PLACE">>)]
EnglishPayload ==
  [ValidPayload EXCEPT !.status = Some("PUBLISHED"), !.type = Some("URBAN_LEGEND"),
                       !.language = Some("EN"), !.confidence = Some("SECONDARY"),
                       !.title = Some([ja |-> None, en |-> Some(<<"T", "e", "s", "t">>)]),
                       !.firstSeen = Some("1998"), !.motifs = Some(<<"PLACE">>)]
UndatedPayload ==
  [ValidPayload EXCEPT !.status = Some("PUBLISHED"), !.motifs = Some(<<"WATER", "WATER">>)]
CatalogPayloads == <<ValidPayload, PublishedPayload, EnglishPayload, UndatedPayload>>

\* the document createItem stored for the n-th payload, at time n \div 2
CatalogDoc(n) ==
  itemDoc(formatItemId(n), validateCreateItemRequest(CatalogPayloads[n]).data, n \div 2)

\* the collections the queries start from: the documents of the creations
\* whose write succeeded
CatalogStores ==
  { [id \in {formatItemId(n) : n \in S} |->
       CatalogDoc(CHOOSE n \in S : formatItemId(n) = id)] :
    S \in {{}, {1}, {2, 3}, {1, 2, 4}, {1, 2, 3, 4}} }

\* the counter after the four creations
CatalogCounter ==
  [ exists |-> TRUE, count |-> Some(IntVal(Len(CatalogPayloads))),
    lastUpdated |-> Len(CatalogPayloads) \div 2, manuallySet |-> FALSE ]

QueryFilters ==
  { NoFilters,
    [NoFilters EXCEPT !.type = Some(<<"KAIDAN">>)],
    [NoFilters EXCEPT !.type = Some(<<>>), !.confidence = Some(<<"SECONDARY", "UNKNOWN">>)],
    [NoFilters EXCEPT !.language = Some(<<"JA">>), !.motif = Some(<<"PLACE", "WATER">>)],
    [NoFilters EXCEPT !.firstSeen = Some(<<"2000s", "2010s">>)],
    [NoFilters EXCEPT !.type = Some(<<"KAIDAN", "URBAN_LEGEND">>),
                      !.motif = Some(<<"ENTITY", "PLACE">>)],
    [NoFilters EXCEPT !.search = Some(<<"U+FF21", " ">>)],
    [NoFilters EXCEPT !.search = Some(<<"テ", "ス">>), !.type = Some(<<"KAIDAN">>)] }

QuerySorts ==
  {None} \cup
  { Some([field |-> f, order |-> o]) :
      f \in {"updatedAt", "createdAt", "firstSeen", "annotationCount"},
      o \in {"asc", "desc"} }

QueryPages ==
  { [limit |-> None, offset |-> None], [limit |-> Some(1), offset |-> None],
    [limit |-> Some(1), offset |-> Some(1)], [limit |-> Some(2), offset |-> Some(2)],
    [limit |-> Some(2), offset |-> Some(0)], [limit |-> Some(3), offset |-> Some(6)] }

\* every filter on the first pages in the default order, and every page of
\* the unfiltered catalog in every order
QueryOptions ==
  { [ filters |-> Some(f), sort |-> None, limit |-> page.limit, offset |-> page.offset ] :
      f \in QueryFilters,
      page \in {pg \in QueryPages : pg.offset \in {None, Some(1)}} }
  \cup
  { [ filters |-> None, sort |-> srt, limit |-> page.limit, offset |-> page.offset ] :
      srt \in QuerySorts, page \in QueryPages }

\* the lists getFacetCounts is called with: none, or the items of a query
FacetArguments == {None} \cup {Some(f) : f \in QueryFilters}

\* the catalog, read while items are ingested and the collection is seeded
InitQuery ==
  /\ now = Len(CatalogPayloads) \div 2
  /\ clockSteps = 0
  /\ rateLimitStore = [ip \in {} |-> 0]
  /\ lastCleanup = 0
  /\ lastCheck = None
  /\ window = [ip \in {} |-> 0]
  /\ calls = 0
  /\ req = [r \in AllSlots |-> IdleReq]
  /\ started = 0
  /\ env \in {e \in Environments : e.NODE_ENV = "production"}
  /\ counter = CatalogCounter
  /\ items \in CatalogStores

\* a string of n characters
TextOfLength(n) == [i \in 1..n |-> "a"]
OptionalText(len) == IF IsSome(len) THEN Some(TextOfLength(Get(len))) ELSE None

\* lengths of a supplied text variant: None is a variant left out
TitleLengths == {None, Some(0), Some(1), Some(TITLE_MAX), Some(TITLE_MAX + 1)}
BodyLengths == {None, Some(0), Some(1), Some(BODY_MAX), Some(BODY_MAX + 1)}

\* motifs arrays of 0 to 4 entries, and arrays with a word outside the
\* vocabulary
MotifArrays ==
  { <<>>, <<"ENTITY">>, <<"ENTITY", "PLACE">>, <<"ENTITY", "PLACE", "WATER">>,
    <<"ENTITY", "PLACE", "WATER", "IDENTITY">>, <<"GHOST">>, <<"ENTITY", "GHOST">>,
    <<"WATER", "WATER">> }

\* the shape of a payload: the lengths of its title and body variants and its
\* motifs; every other field is as in ValidPayload
DefaultShape ==
  [ title |-> [ja |-> Some(1), en |-> None],
    body |-> [ja |-> Some(1), en |-> None, original |-> None],
    motifs |-> <<"ENTITY">> ]

PayloadShapes ==
  { [DefaultShape EXCEPT !.title = [ja |-> j, en |-> e], !.motifs = m] :
      j \in TitleLengths, e \in TitleLengths,
      m \in {<<"ENTITY">>, <<>>, <<"ENTITY", "PLACE", "WATER", "IDENTITY">>} }
  \cup
  { [DefaultShape EXCEPT !.body = [ja |-> j, en |-> e, original |-> o]] :
      j \in BodyLengths, e \in {None, Some(0), Some(1), Some(BODY_MAX + 1)},
      o \in {None, Some(1), Some(BODY_MAX)} }
  \cup
  { [DefaultShape EXCEPT !.motifs = m, !.title = [ja |-> None, en |-> e]] :
      m \in MotifArrays, e \in {None, Some(TITLE_MAX)} }

\* the request body of a shape
PayloadOf(shape) ==
  [ValidPayload EXCEPT
     !.title = Some([ja |-> OptionalText(shape.title.ja), en |-> OptionalText(shape.title.en)]),
     !.body = Some([ja |-> OptionalText(shape.body.ja), en |-> OptionalText(shape.body.en),
                    original |-> OptionalText(shape.body.original)]),
     !.motifs = Some(shape.motifs)]

\* ways one field of a payload breaks its rule, named after the field;
\* titleLength is a second way for title
Faults ==
  { "type", "language", "confidence", "title", "titleLength", "body", "motifs", "status",
    "originalTitle", "firstSeen", "sourceName", "sourceUrl", "sourceArchiveUrl",
    "formats", "region", "medium" }

\* the field a fault is in
FieldOf(fault) == IF fault = "titleLength" THEN "title" ELSE fault

\* ValidPayload with the fields of `faults` broken
FaultyPayload(faults) ==
  [ type |-> IF "type" \in faults THEN Some("GHOST_STORY") ELSE ValidPayload.type,
    language |-> IF "language" \in faults THEN None ELSE ValidPayload.language,
    confidence |-> IF "confidence" \in faults THEN Some("HIGH") ELSE ValidPayload.confidence,
    title |-> IF "title" \in faults THEN Some([ja |-> None, en |-> None])
              ELSE IF "titleLength" \in faults
              THEN Some([ja |-> Some(TextOfLength(TITLE_MAX + 1)), en |-> None])
              ELSE ValidPayload.title,
    body |-> IF "body" \in faults THEN Some([ja |-> Some(<<>>), en |-> None, original |-> None])
             ELSE ValidPayload.body,
    motifs |-> IF "motifs" \in faults THEN Some(<<>>) ELSE ValidPayload.motifs,
    status |-> IF "status" \in faults THEN Some("ARCHIVED") ELSE None,
    originalTitle |-> IF "originalTitle" \in faults
                      THEN Some(TextOfLength(TITLE_MAX + 1)) ELSE None,
    firstSeen |-> IF "firstSeen" \in faults THEN Some("1990s") ELSE Some("2004-01"),
    sourceName |-> IF "sourceName" \in faults
                   THEN Some(TextOfLength(SOURCE_NAME_MAX + 1)) ELSE None,
    sourceUrl |-> IF "sourceUrl" \in faults THEN Some("kisaragi")
                  ELSE Some("https://example.com/kisaragi"),
    sourceArchiveUrl |-> IF "sourceArchiveUrl" \in faults THEN Some("archive kisaragi")
                         ELSE None,
    formats |-> IF "formats" \in faults
                THEN Some([i \in 1..(FORMATS_MAX + 1) |-> <<"t", "x", "t">>])
                ELSE Some(<<<<"t", "x", "t">>>>),
    region |-> IF "region" \in faults THEN Some("MARS") ELSE Some("JAPAN"),
    medium |-> IF "medium" \in faults THEN Some("TELEPATHY") ELSE None ]

\* the sets of faults submitted: up to three at once, and all but at most one
FaultSets ==
  { F \in SUBSET Faults : Cardinality(F) <= 3 \/ Cardinality(F) >= Cardinality(Faults) - 1 }

\* the validator alone
InitValidate ==
  /\ InitCommon
  /\ env \in {e \in Environments : e.NODE_ENV = "production"}
  /\ counter = NoCounter

\* the characters the texts handed to normalizeText() are made of: an upper-
\* and a lower-case letter, a digit, a symbol, whitespace, and compatibility
\* characters that NFKC maps to other characters
TextAlphabet ==
  {"A", "a", "1", "-", " ", TelSign, FullwidthUpperA, IdeographicSpace}
RECURSIVE TextsOfLength(_)
TextsOfLength(n) ==
  IF n = 0 THEN {<<>>}
  ELSE {Append(s, c) : s \in TextsOfLength(n - 1), c \in TextAlphabet}
Texts == UNION {TextsOfLength(n) : n \in 0..MaxTextLen}

\* items handed to generateSearchTokens(): the fields it reads and two it
\* does not
SearchItem(id, ja, en, originalTitle, sourceName, motifs, type, firstSeen) ==
  [ id |-> id, title |-> [ja |-> ja, en |-> en], originalTitle |-> originalTitle,
    sourceName |-> sourceName, motifs |-> motifs, type |-> type,
    firstSeen |-> firstSeen ]

\* the title of the spec's example, KU NE KU NE
Kunekune == <<HiraganaKu, HiraganaNe, HiraganaKu, HiraganaNe>>

SearchItems ==
  { SearchItem("DTA-000128", Some(Kunekune), None, None, None, <<"ENTITY">>,
               "KAIDAN", None),
    SearchItem("DTA-000128", Some(Kunekune), None, None, None, <<"ENTITY">>,
               "URBAN_LEGEND", Some("2000s")),
    SearchItem("", Some(<<>>), Some(Chars("Red abcdefghijkl")), Some(<<TelSign>>),
               Some(Chars("(-)")), <<"WATER", "WATER">>, "KAIDAN", None),
    SearchItem("DTA-000007", Some(<<"テ", "ス", "ト", IdeographicSpace, "内", "容">>),
               Some(<<" ", FullwidthUpperA, "-", "1", " ">>), Some(Kunekune),
               Some(Chars("2ch (BBS)")), <<"FOREST", "NIGHT_ROAD">>, "KAIDAN",
               Some("Pre-1999")) }

SearchQueries ==
  { <<>>, <<"-">>, <<" ">>, <<HiraganaKu, HiraganaNe>>, <<HiraganaNe, HiraganaKu>>, <<HiraganaNe>>,
    Kunekune,
    <<" ", HiraganaKu, HiraganaNe, IdeographicSpace>>, <<"テ", "ス", "ト", " ", "内">>, <<"内">>,
    Chars("abcdefghijk"), Chars("abcdefghij"), Chars("abcdefghijkl"),
    Chars("abcdefghijklm"), Chars("red ab"), Chars("RED"), Chars("red"), Chars("ed"),
    Chars("dta000128"), Chars("DTA-0001"), Chars("000128"), Chars("128"),
    Chars("ent"), Chars("wat"), Chars("night"), Chars("road"), Chars("bbs"),
    Chars("2ch b"), <<FullwidthUpperA>>, <<FullwidthUpperA, FullwidthOne>>,
    Chars("a1"), Chars("tel"), Chars("TEL"), <<TelSign>> }

\* the text functions alone
InitText ==
  /\ InitCommon
  /\ env \in {e \in Environments : e.NODE_ENV = "production"}
  /\ counter = NoCounter

\* the limiter alone, under each of the rate-limit settings
InitRate ==
  /\ InitCommon
  /\ env \in RateEnvironments
  /\ counter = NoCounter

\* the allocator alone, against whatever counter document the store holds
InitCounter ==
  /\ InitCommon
  /\ env \in Environments
  /\ counter \in CounterDocs

(***************************************************************************)
(* The clock                                                               *)
(***************************************************************************)
AdvanceClock(d) ==
  /\ clockSteps < MaxClockSteps
  /\ now' = now + d
  /\ clockSteps' = clockSteps + 1
  /\ UNCHANGED << env, rateVars, calls, counter, items, req, started >>

(***************************************************************************)
(* Rate-limit bookkeeping shared by every caller of checkRateLimit         *)
(***************************************************************************)
\* the fixed-window rule stated on its own: a call at time t opens a window
\* when the client has none or its window has run for windowMs, and
\* otherwise is one more call of the current window
WindowStep(w, ip, t, windowMs) ==
  IF ip \notin DOMAIN w \/ t - w[ip].start >= windowMs
  THEN (ip :> [start |-> t, rank |-> 1]) @@ w
  ELSE (ip :> [start |-> w[ip].start, rank |-> w[ip].rank + 1]) @@ w

\* the effect of one checkRateLimit(request) call on the limiter's state
CallCheckRateLimit(request, out) ==
  /\ out = checkRateLimit(rateLimitStore, lastCleanup, now, request, env)
  /\ rateLimitStore' = out.store
  /\ lastCleanup' = out.lastCleanup
  /\ lastCheck' = Some([ip |-> getClientIp(request), at |-> now, result |-> out.result])
  /\ window' = WindowStep(window, getClientIp(request), now, getConfig(env).windowMs)

\* a caller other than the route checks the limit (the function is exported)
CheckRateLimitCall(request) ==
  /\ calls < MaxCalls
  /\ calls' = calls + 1
  /\ \E out \in {checkRateLimit(rateLimitStore, lastCleanup, now, request, env)} :
       CallCheckRateLimit(request, out)
  /\ UNCHANGED << env, now, clockSteps, counter, items, req, started >>

(***************************************************************************)
(* POST /api/v1/items (route.ts)                                           *)
(***************************************************************************)
\* the 429 response of the route: retryAfter in the body, the limiter's headers
POST_rateLimited(rateLimitResult, at, nodeEnv) ==
  LET retryAfterSeconds ==
        CeilDiv(rateLimitResult.reset * MS_PER_SECOND - at, MS_PER_SECOND)
  IN  SetHeaders(createErrorResponse("RATE_LIMITED",
                                     "Rate limit exceeded. Please try again later.",
                                     Some([retryAfter |-> retryAfterSeconds]), nodeEnv),
                 rateLimitResult.headers)

\* the 201 response of the route
POST_created(id, createdAt, rateLimitResult) ==
  SetHeaders(createSuccessResponse([id |-> id, createdAt |-> createdAt], 201),
             rateLimitResult.headers)

\* what the entry point answers when createItem throws `message`
Thrown(kind, message, nodeEnv) ==
  IF kind = "rest" THEN withErrorHandling(message, nodeEnv)
  ELSE IF kind = "mcp"
  THEN [ response |-> [ status |-> 0, success |-> FALSE, code |-> "InternalError",
                        message |-> "Failed to create item: " \o message,
                        details |-> None, data |-> None, headers |-> NoHeaders ],
         logged |-> FALSE ]
  ELSE [ response |-> [ status |-> 0, success |-> FALSE, code |-> "Error",
                        message |-> message,
                        details |-> None, data |-> None, headers |-> NoHeaders ],
         logged |-> FALSE ]

\* the request of slot r ends at `stage` with `response`
Reject(r, stage, response) ==
  [req[r] EXCEPT !.pc = "done", !.failedAt = stage, !.response = Some(response)]

\* step 1: the request arrives and checkRateLimit runs
POST_checkRateLimit(r, request) ==
  /\ req[r].pc = "idle"
  /\ started < MaxStarted
  /\ started' = started + 1
  /\ \E out \in {checkRateLimit(rateLimitStore, lastCleanup, now, request, env)} :
       /\ CallCheckRateLimit(request, out)
       /\ LET begun == [req[r] EXCEPT !.kind = "rest", !.request = Some(request),
                                      !.rl = Some(out.result)]
          IN  req' = [req EXCEPT ![r] =
                IF ~out.result.allowed
                THEN [begun EXCEPT !.pc = "done", !.failedAt = "rate",
                                   !.response = Some(POST_rateLimited(out.result, now,
                                                                      env.NODE_ENV))]
                ELSE [begun EXCEPT !.pc = "auth", !.passed = <<"rate">>]]
  /\ UNCHANGED << env, now, clockSteps, calls, counter, items >>

\* FAULTY VARIANT of POST_validateApiKey: a request that fails
\* authentication gives its place in the window back
POST_validateApiKey_Refunds(r) ==
  /\ req[r].pc = "auth"
  /\ LET auth == validateApiKey(Get(req[r].request), env, now)
         ip   == getClientIp(Get(req[r].request))
     IN  /\ req' = [req EXCEPT ![r] =
               IF ~auth.valid
               THEN Reject(r, "auth", createAuthError("Invalid or missing API key",
                                                      env.NODE_ENV))
               ELSE [@ EXCEPT !.pc = "parse", !.passed = Append(@, "auth")]]
         /\ rateLimitStore' =
               IF ~auth.valid /\ ip \in DOMAIN rateLimitStore
               THEN [rateLimitStore EXCEPT ![ip].count = @ - 1]
               ELSE rateLimitStore
  /\ UNCHANGED << env, now, clockSteps, lastCleanup, lastCheck, window, calls,
                  counter, items, started >>

\* step 2: validateApiKey
POST_validateApiKey(r) ==
  /\ req[r].pc = "auth"
  /\ LET auth == validateApiKey(Get(req[r].request), env, now)
     IN  req' = [req EXCEPT ![r] =
           IF ~auth.valid
           THEN Reject(r, "auth", createAuthError("Invalid or missing API key",
                                                  env.NODE_ENV))
           ELSE [@ EXCEPT !.pc = "parse", !.passed = Append(@, "auth")]]
  /\ UNCHANGED << env, now, clockSteps, rateVars, calls, counter, items, started >>

\* FAULTY VARIANT of POST_validate: the ID is allocated before the payload
\* is validated
POST_validate_AllocatesFirst(r) ==
  /\ req[r].pc = "parse"
  /\ LET body == Get(req[r].request).json
         update == generateItemId_update(counter, now)
     IN  /\ counter' = update.doc
         /\ req' = [req EXCEPT ![r] =
               IF ~IsSome(body) \/ ~validateCreateItemRequest(Get(body)).success
               THEN Reject(r, "validate",
                           createValidationError("Invalid request data", None,
                                                 env.NODE_ENV))
               ELSE [@ EXCEPT !.pc = "write", !.id = update.id,
                              !.data = Some(validateCreateItemRequest(Get(body)).data),
                              !.passed = Append(@, "validate")]]
  /\ UNCHANGED << env, now, clockSteps, rateVars, calls, items, started >>

\* step 3: request.json() and validateCreateItemRequest
POST_validate(r) ==
  /\ req[r].pc = "parse"
  /\ LET body == Get(req[r].request).json
     IN  req' = [req EXCEPT ![r] =
           IF ~IsSome(body)
           THEN Reject(r, "json", createValidationError("Invalid JSON in request body",
                                                        None, env.NODE_ENV))
           ELSE LET validation == validateCreateItemRequest(Get(body))
                IN  IF ~validation.success
                    THEN Reject(r, "validate",
                                createValidationError(validation.message,
                                                      Some(validation.fields),
                                                      env.NODE_ENV))
                    ELSE [@ EXCEPT !.pc = "txn_get", !.data = Some(validation.data),
                                   !.passed = Append(@, "validate")]]
  /\ UNCHANGED << env, now, clockSteps, rateVars, calls, counter, items, started >>

(***************************************************************************)
(* The MCP tool create_folklore_item (mcp/index.ts, the tool handler)      *)
(***************************************************************************)
McpError(code, message) ==
  [ status |-> 0, success |-> FALSE, code |-> code, message |-> message,
    details |-> None, data |-> None, headers |-> NoHeaders ]

\* the handler up to its call of createItem
handler(m, args) ==
  /\ req[m].pc = "idle"
  /\ started < MaxStarted
  /\ started' = started + 1
  /\ LET begun == [req[m] EXCEPT !.kind = "mcp"]
     IN  req' = [req EXCEPT ![m] =
           IF ~IsSome(args)
           THEN [begun EXCEPT !.pc = "done", !.failedAt = "arguments",
                              !.response = Some(McpError("InvalidParams",
                                                         "Missing arguments"))]
           ELSE LET validation == validateCreateItemRequest(Get(args))
                IN  IF ~validation.success
                    THEN [begun EXCEPT !.pc = "done", !.failedAt = "validate",
                                       !.response = Some(
                                         [McpError("InvalidParams", "Validation failed")
                                            EXCEPT !.details =
                                              Some([fields |-> validation.fields])])]
                    ELSE [begun EXCEPT !.pc = "txn_get", !.data = Some(validation.data),
                                       !.passed = <<"validate">>]]
  /\ UNCHANGED << env, now, clockSteps, rateVars, calls, counter, items >>

(***************************************************************************)
(* createItem (the item service), shared by the route and the MCP tool.    *)
(* generateItemId runs one Firestore transaction: the read, then the       *)
(* update function and the commit; a commit whose read is out of date is   *)
(* retried from the read.                                                  *)
(***************************************************************************)
\* FAULTY VARIANT of Invalidate: a write does not invalidate the reads of
\* the other transactions (a read-modify-write outside a transaction)
Invalidate_Never(rq, r) == rq

\* every other transaction that has read the counter now holds a stale read
Invalidate(rq, r) ==
  [s \in DOMAIN rq |-> IF s # r /\ rq[s].pc = "txn_update"
                   THEN [rq[s] EXCEPT !.stale = TRUE] ELSE rq[s]]

\* generateItemId() has returned `id` to slot r: createItem goes on to the
\* document write, a direct caller has its result
Allocated(r, id) ==
  IF req[r].kind = "direct"
  THEN [req[r] EXCEPT !.pc = "done", !.id = id, !.effects = @ \cup {"counter"},
                      !.response = Some([ status |-> 0, success |-> TRUE, code |-> "",
                                          message |-> "", details |-> None,
                                          data |-> Some([id |-> id]),
                                          headers |-> NoHeaders ])]
  ELSE [req[r] EXCEPT !.pc = "write", !.id = id, !.effects = @ \cup {"counter"}]

\* a caller awaits generateItemId()
generateItemId_call(c) ==
  /\ req[c].pc = "idle"
  /\ req' = [req EXCEPT ![c] = [@ EXCEPT !.pc = "txn_get", !.kind = "direct"]]
  /\ UNCHANGED << env, now, clockSteps, rateVars, calls, counter, items, started >>

\* transaction.get(counterRef)
generateItemId_get(r) ==
  /\ req[r].pc = "txn_get"
  /\ req' = [req EXCEPT ![r] = [@ EXCEPT !.pc = "txn_update", !.snap = counter,
                                        !.stale = FALSE]]
  /\ UNCHANGED << env, now, clockSteps, rateVars, calls, counter, items, started >>

\* the update function on the document read, then the commit
generateItemId_commit(r) ==
  /\ req[r].pc = "txn_update"
  /\ LET update == generateItemId_update(req[r].snap, now)
     IN  IF IsSome(update.error)
         THEN LET thrown == Thrown(req[r].kind, Get(update.error), env.NODE_ENV)
              IN  /\ req' = [req EXCEPT ![r] =
                       [Reject(r, "allocate", thrown.response)
                          EXCEPT !.logged = thrown.logged, !.thrown = update.error]]
                  /\ counter' = counter
         ELSE IF req[r].stale
         THEN /\ req' = [req EXCEPT ![r] = [@ EXCEPT !.pc = "txn_get", !.retried = TRUE]]
              /\ counter' = counter
         ELSE /\ counter' = update.doc
              /\ req' = Invalidate([req EXCEPT ![r] = Allocated(r, update.id)], r)
  /\ UNCHANGED << env, now, clockSteps, rateVars, calls, items, started >>

\* the transaction is rejected by the store (unavailable, timeout): nothing
\* is committed and runTransaction throws
generateItemId_storeError(r) ==
  /\ req[r].pc \in {"txn_get", "txn_update"}
  /\ LET thrown == Thrown(req[r].kind, "store unavailable", env.NODE_ENV)
     IN  req' = [req EXCEPT ![r] =
           [Reject(r, "allocate", thrown.response)
              EXCEPT !.logged = thrown.logged, !.thrown = Some("store unavailable")]]
  /\ UNCHANGED << env, now, clockSteps, rateVars, calls, counter, items, started >>

\* what the entry point returns once createItem has returned
Created(kind, id, createdAt, rateLimitResult) ==
  IF kind = "rest" THEN POST_created(id, createdAt, Get(rateLimitResult))
  ELSE [ status |-> 0, success |-> TRUE, code |-> "", message |-> "",
         details |-> None, data |-> Some([id |-> id, createdAt |-> createdAt]),
         headers |-> NoHeaders ]

\* db.collection('items').doc(id).set(itemDoc) and the success response
createItem_set(r) ==
  /\ req[r].pc = "write"
  /\ items' = (req[r].id :> itemDoc(req[r].id, Get(req[r].data), now)) @@ items
  /\ req' = [req EXCEPT ![r] =
       [@ EXCEPT !.pc = "done", !.effects = @ \cup {"item"},
                 !.response = Some(Created(req[r].kind, req[r].id, now, req[r].rl))]]
  /\ UNCHANGED << env, now, clockSteps, rateVars, calls, counter, started >>

\* FAULTY VARIANT of createItem_setError: the document is stored although
\* the write reports a failure
createItem_setError_Partial(r) ==
  /\ req[r].pc = "write"
  /\ items' = (req[r].id :> itemDoc(req[r].id, Get(req[r].data), now)) @@ items
  /\ LET thrown == Thrown(req[r].kind, "store unavailable", env.NODE_ENV)
     IN  req' = [req EXCEPT ![r] =
           [Reject(r, "write", thrown.response)
              EXCEPT !.logged = thrown.logged, !.thrown = Some("store unavailable"),
                     !.effects = @ \cup {"item"}]]
  /\ UNCHANGED << env, now, clockSteps, rateVars, calls, counter, started >>

\* the document write is rejected by the store: set() throws
createItem_setError(r) ==
  /\ req[r].pc = "write"
  /\ LET thrown == Thrown(req[r].kind, "store unavailable", env.NODE_ENV)
     IN  req' = [req EXCEPT ![r] =
           [Reject(r, "write", thrown.response)
              EXCEPT !.logged = thrown.logged, !.thrown = Some("store unavailable")]]
  /\ UNCHANGED << env, now, clockSteps, rateVars, calls, counter, items, started >>

\* the response has been sent; the slot takes the next request
Finish(r) ==
  /\ req[r].pc = "done"
  /\ req' = [req EXCEPT ![r] = IdleReq]
  /\ UNCHANGED << env, now, clockSteps, rateVars, calls, counter, items, started >>

(***************************************************************************)
(* validateApiKey called on its own                                        *)
(***************************************************************************)
\* await validateApiKey(request): the slot keeps the request and the
\* [valid, log] outcome
ValidateApiKeyCall(a, request) ==
  /\ req[a].pc = "idle"
  /\ calls < MaxCalls
  /\ calls' = calls + 1
  /\ req' = [req EXCEPT ![a] =
               [IdleReq EXCEPT !.pc = "done", !.kind = "auth",
                               !.request = Some(request),
                               !.response = Some(validateApiKey(request, env, now))]]
  /\ UNCHANGED << env, now, clockSteps, rateVars, counter, items, started >>

(***************************************************************************)
(* Catalog reads                                                           *)
(***************************************************************************)
\* await queryCatalogItems(options): the slot keeps the options, the list
\* getPublishedItems() returned and the result
QueryCatalogItems(q, options) ==
  /\ req[q].pc = "idle"
  /\ req' = [req EXCEPT ![q] =
               [IdleReq EXCEPT !.pc = "done", !.kind = "query",
                               !.request = Some(options),
                               !.data = Some(getPublishedItems(items)),
                               !.response = Some(queryCatalogItems(items, options))]]
  /\ UNCHANGED << env, now, clockSteps, rateVars, calls, counter, items, started >>

\* await getFacetCounts(list): list is left out, or is what a query for
\* `filters` returned
GetFacetCounts(q, filters) ==
  /\ req[q].pc = "idle"
  /\ LET list == IF IsSome(filters)
                 THEN Some(applyFilters(getPublishedItems(items), Get(filters)))
                 ELSE None
     IN  req' = [req EXCEPT ![q] =
               [IdleReq EXCEPT !.pc = "done", !.kind = "facets",
                               !.request = Some(filters),
                               !.data = Some(IF IsSome(list) THEN Get(list)
                                             ELSE getPublishedItems(items)),
                               !.response = Some(getFacetCounts(items, list))]]
  /\ UNCHANGED << env, now, clockSteps, rateVars, calls, counter, items, started >>

(***************************************************************************)
(* validateCreateItemRequest called on its own                             *)
(***************************************************************************)
\* validateCreateItemRequest(body) for the body of `shape`: the slot keeps
\* the shape and [success, message, fields]
ValidateCall(v, shape) ==
  /\ req[v].pc = "idle"
  /\ LET result == validateCreateItemRequest(PayloadOf(shape))
     IN  req' = [req EXCEPT ![v] =
               [IdleReq EXCEPT !.pc = "done", !.kind = "validate",
                               !.request = Some(shape),
                               !.response = Some([ success |-> result.success,
                                                   message |-> result.message,
                                                   fields  |-> result.fields ])]]
  /\ UNCHANGED << env, now, clockSteps, rateVars, calls, counter, items, started >>

\* validateCreateItemRequest(body) for ValidPayload broken in `faults`
ValidateFaulty(v, faults) ==
  /\ req[v].pc = "idle"
  /\ LET result == validateCreateItemRequest(FaultyPayload(faults))
     IN  req' = [req EXCEPT ![v] =
               [IdleReq EXCEPT !.pc = "done", !.kind = "validateFaulty",
                               !.request = Some(faults),
                               !.response = Some([ success |-> result.success,
                                                   message |-> result.message,
                                                   fields  |-> result.fields ])]]
  /\ UNCHANGED << env, now, clockSteps, rateVars, calls, counter, items, started >>

(***************************************************************************)
(* The text functions called on their own                                  *)
(***************************************************************************)
\* normalizeText(text): the slot keeps the text and the normalized text
NormalizeText(t, text) ==
  /\ req[t].pc = "idle"
  /\ req' = [req EXCEPT ![t] =
               [IdleReq EXCEPT !.pc = "done", !.kind = "normalize",
                               !.request = Some(text),
                               !.response = Some(normalizeText(text))]]
  /\ UNCHANGED << env, now, clockSteps, rateVars, calls, counter, items, started >>

\* generateSearchTokens(item): the slot keeps the item and the token list
GenerateSearchTokens(t, item) ==
  /\ req[t].pc = "idle"
  /\ req' = [req EXCEPT ![t] =
               [IdleReq EXCEPT !.pc = "done", !.kind = "tokens",
                               !.request = Some(item),
                               !.response = Some(generateSearchTokens(item))]]
  /\ UNCHANGED << env, now, clockSteps, rateVars, calls, counter, items, started >>

\* matchesSearchQuery(generateSearchTokens(item), query): the slot keeps
\* the item, the query and the answer
MatchesSearchQuery(t, item, query) ==
  /\ req[t].pc = "idle"
  /\ req' = [req EXCEPT ![t] =
               [IdleReq EXCEPT !.pc = "done", !.kind = "match",
                               !.request = Some([item |-> item, query |-> query]),
                               !.response =
                                 Some(matchesSearchQuery(generateSearchTokens(item),
                                                         query))]]
  /\ UNCHANGED << env, now, clockSteps, rateVars, calls, counter, items, started >>

(***************************************************************************)
(* Maintenance operations                                                  *)
(***************************************************************************)
\* setCounter(count): a plain set of the counter document, outside any
\* transaction
SetCounter(count) ==
  /\ LET out == setCounter(count, now)
     IN  IF IsSome(out.error)
         THEN UNCHANGED << counter, req >>
         ELSE /\ counter' = out.doc
              /\ req' = Invalidate(req, "")
  /\ UNCHANGED << env, now, clockSteps, rateVars, calls, items, started >>

\* scripts/seed-firestore.ts: seedItems
SeedItems ==
  /\ items' = seedItems(items, now)
  /\ UNCHANGED << env, now, clockSteps, rateVars, calls, counter, req, started >>

(***************************************************************************)
(* The ingestion system: requests over REST and MCP, maintenance, time     *)
(***************************************************************************)
Next ==
  \/ \E d \in ClockSteps : AdvanceClock(d)
  \/ \E r \in RestSlots : \E request \in RestRequests : POST_checkRateLimit(r, request)
  \/ \E r \in RestSlots : POST_validateApiKey(r)
  \/ \E r \in RestSlots : POST_validate(r)
  \/ \E m \in McpSlots : \E args \in McpArguments : handler(m, args)
  \/ \E r \in Slots : generateItemId_get(r)
  \/ \E r \in Slots : generateItemId_commit(r)
  \/ \E r \in Slots : generateItemId_storeError(r)
  \/ \E r \in Slots : createItem_set(r)
  \/ \E r \in Slots : createItem_setError(r)
  \/ \E r \in Slots : Finish(r)

\* the document store under the MCP tool and the maintenance operations
NextStore ==
  \/ \E m \in McpSlots : \E args \in McpArguments : handler(m, args)
  \/ \E r \in McpSlots : generateItemId_get(r)
  \/ \E r \in McpSlots : generateItemId_commit(r)
  \/ \E r \in McpSlots : generateItemId_storeError(r)
  \/ \E r \in McpSlots : createItem_set(r)
  \/ \E r \in McpSlots : createItem_setError(r)
  \/ \E r \in McpSlots : Finish(r)
  \/ \E count \in SetCounterInputs : SetCounter(count)
  \/ SeedItems

Spec == Init /\ [][Next]_vars

\* concurrent callers of generateItemId()
NextAlloc ==
  \/ \E c \in Callers : generateItemId_call(c)
  \/ \E c \in Callers : generateItemId_get(c)
  \/ \E c \in Callers : generateItemId_commit(c)

\* against a counter document that does not exist yet
SpecAlloc == Init /\ [][NextAlloc]_vars

\* against any counter document
SpecCounter == InitCounter /\ [][NextAlloc]_vars

\* callers of checkRateLimit as time passes
NextRate ==
  \/ \E d \in RateClockSteps : AdvanceClock(d)
  \/ \E request \in RateRequests : CheckRateLimitCall(request)

SpecRate == InitRate /\ [][NextRate]_vars

\* the same when time is certain to pass and calls are not certain to
\* arrive: the clock is the environment's, a call is some client's choice
SpecRateLive ==
  InitRate /\ [][NextRate]_vars /\ WF_vars(\E d \in RateClockSteps : AdvanceClock(d))

SpecStore == Init /\ [][NextStore]_vars

NextAuth ==
  \/ \E d \in ClockSteps : AdvanceClock(d)
  \/ \E a \in AuthSlots : \E request \in AuthRequests : ValidateApiKeyCall(a, request)
  \/ \E a \in AuthSlots : Finish(a)

SpecAuth == InitAuth /\ [][NextAuth]_vars

\* the catalog read while the MCP tool ingests items and the seed script runs
NextQuery ==
  \/ \E q \in QuerySlots : \E options \in QueryOptions : QueryCatalogItems(q, options)
  \/ \E q \in QuerySlots : \E filters \in FacetArguments : GetFacetCounts(q, filters)
  \/ \E q \in QuerySlots : Finish(q)
  \/ \E m \in McpSlots : handler(m, Some(ValidPayload))
  \/ \E r \in McpSlots : generateItemId_get(r)
  \/ \E r \in McpSlots : generateItemId_commit(r)
  \/ \E r \in McpSlots : createItem_set(r)
  \/ \E r \in McpSlots : Finish(r)
  \/ SeedItems

SpecQuery == InitQuery /\ [][NextQuery]_vars

NextValidate ==
  \/ \E v \in ValidateSlots : \E shape \in PayloadShapes : ValidateCall(v, shape)
  \/ \E v \in ValidateSlots : \E faults \in FaultSets : ValidateFaulty(v, faults)
  \/ \E v \in ValidateSlots : Finish(v)

SpecValidate == InitValidate /\ [][NextValidate]_vars

NextText ==
  \/ \E t \in TextSlots : \E text \in Texts : NormalizeText(t, text)
  \/ \E t \in TextSlots : \E item \in SearchItems : GenerateSearchTokens(t, item)
  \/ \E t \in TextSlots : \E item \in SearchItems : \E query \in SearchQueries :
       MatchesSearchQuery(t, item, query)
  \/ \E t \in TextSlots : Finish(t)

SpecText == InitText /\ [][NextText]_vars

(***************************************************************************)
(* Properties                                                              *)
(***************************************************************************)
Quiescent == \A c \in Callers : req[c].pc \in {"idle", "done"}
Returned == {c \in Callers : req[c].pc = "done"}

\* C1: N concurrent generateItemId() calls against a counter that does not
\* exist yet return N distinct IDs, exactly DTA-000001 .. DTA-00000N, and
\* leave the counter at N, whatever conflicts and retries occur.
C1_AllocatorUniqueness ==
  LET ids == {req[c].id : c \in Returned}
      n   == Cardinality(Returned)
  IN  /\ \A c \in Returned : Get(req[c].response).success
      /\ Cardinality(ids) = n
      /\ Quiescent =>
           /\ ids = {formatItemId(i) : i \in 1..n}
           /\ (n = 0 => counter = NoCounter)
           /\ (n >= 1 => counter.exists /\ counter.count = Some(IntVal(n)))

\* every caller has returned and at least one commit was retried on a conflict
C1_Witness ==
  /\ Returned = Callers
  /\ \E c \in Callers : req[c].retried

\* C2: a successful createItem() writes its document under a key at which
\* no item document existed before, in every reachable state of the store,
\* seeded stores and stores whose counter was set by setCounter included.
C2_NoOverwrite ==
  [][\A r \in Slots :
       ("item" \in req'[r].effects /\ "item" \notin req[r].effects)
         => req[r].id \notin DOMAIN items]_vars

\* C3: every item document is written only after the same request passed
\* the rate-limit check, the credential verification and the payload
\* validation, in this order, whichever entry point created it.
C3_WriteAfterAllChecks ==
  \A r \in Slots :
    "item" \in req[r].effects => req[r].passed = <<"rate", "auth", "validate">>

EarlyStages == {"rate", "auth", "json", "validate"}

\* C4: a POST request rejected by the rate limiter, by authentication, by
\* JSON parsing or by validation runs no counter transaction and no item
\* write: no step it takes changes the counter record or the items
\* collection.
C4_RejectionHasNoEffect ==
  /\ [](\A r \in RestSlots :
          (req[r].pc = "done" /\ req[r].failedAt \in EarlyStages)
            => (req[r].effects = {} /\ req[r].id = ""))
  /\ [][\A r \in RestSlots :
          (req[r].pc \in {"idle", "auth", "parse"} /\ req'[r] # req[r])
            => (counter' = counter /\ items' = items)]_vars

\* a request is rejected by validation while the store already holds a
\* counter and an item
C4_Witness ==
  \E r \in RestSlots :
    /\ req[r].pc = "done"
    /\ req[r].failedAt = "validate"
    /\ counter.exists
    /\ DOMAIN items # {}

Failed(r) == req[r].pc = "done" /\ ~Get(req[r].response).success

C6_FixedWindow ==
  IsSome(lastCheck) =>
    LET call   == Get(lastCheck)
        k      == window[call.ip].rank
        max    == getConfig(env).maxRequests
        result == call.result
    IN  /\ call.ip \in DOMAIN rateLimitStore
        /\ rateLimitStore[call.ip] = [count |-> k, windowStart |-> window[call.ip].start]
        /\ (k = 1 => rateLimitStore[call.ip].windowStart = call.at)
        /\ (k <= max => result.allowed /\ result.remaining = max - k)
        /\ (k > max => ~result.allowed /\ result.remaining = 0)

\* a client is denied in a window that is not its first one
C6_Witness ==
  /\ IsSome(lastCheck)
  /\ ~Get(lastCheck).result.allowed
  /\ window[Get(lastCheck).ip].rank > getConfig(env).maxRequests
  /\ window[Get(lastCheck).ip].start > 0

\* the retry delays a denied response of the route gives to the caller: the
\* Retry-After header and the retryAfter of the error body
RetryDelays(response) ==
  (IF IsSome(response.headers.retryAfter) THEN {Get(response.headers.retryAfter)} ELSE {})
  \cup (IF IsSome(response.details) THEN {Get(response.details).retryAfter} ELSE {})

\* C7: whenever a request is denied by the rate limiter, every retry delay
\* given to the caller is sufficient: a request of the same client made
\* that many seconds after the denied one is allowed.
C7_RetryDelaySufficient ==
  \A r \in RestSlots :
    (req[r].pc = "done" /\ req[r].failedAt = "rate") =>
      \A delay \in RetryDelays(Get(req[r].response)) :
        checkRateLimit(rateLimitStore, lastCleanup,
                       Get(lastCheck).at + delay * MS_PER_SECOND,
                       Get(req[r].request), env).result.allowed

\* C8: every response of POST /api/v1/items carries X-RateLimit-Limit,
\* X-RateLimit-Remaining and X-RateLimit-Reset, and a response rejected for
\* rate limiting additionally carries a retry delay.
C8_RateLimitMetadataOnEveryResponse ==
  \A r \in RestSlots :
    req[r].pc = "done" =>
      LET response == Get(req[r].response)
      IN  /\ IsSome(response.headers.limit)
          /\ IsSome(response.headers.remaining)
          /\ IsSome(response.headers.reset)
          /\ (req[r].failedAt = "rate" => RetryDelays(response) # {})

OverflowError == Some("ID counter overflow: maximum capacity reached")
CorruptError == Some("Invalid counter value in database")

\* the transaction of caller c ends in this step
Concludes(c) == req[c].pc = "txn_update" /\ req'[c].pc = "done"

\* C9: when the stored counter equals 999999, generateItemId() fails with
\* an overflow error and commits no write; for every stored value from 0 to
\* 999998 it succeeds and stores value + 1.
C9_Overflow ==
  [][\A c \in Callers :
       (Concludes(c) /\ req[c].snap.exists /\ IsSome(req[c].snap.count)) =>
         LET stored == Get(req[c].snap.count)
         IN  /\ (stored = IntVal(MAX_COUNT) =>
                   /\ req'[c].thrown = OverflowError
                   /\ ~Get(req'[c].response).success
                   /\ counter' = counter)
             /\ (IsInteger(stored) /\ stored.v \in 0..(MAX_COUNT - 1) =>
                   /\ Get(req'[c].response).success
                   /\ counter = req[c].snap
                   /\ counter'.count = Some(IntVal(stored.v + 1))
                   /\ req'[c].id = formatItemId(stored.v + 1))]_vars

\* a call has failed with the overflow error and the counter still holds 999999
C9_Witness ==
  \E c \in Callers :
    /\ req[c].pc = "done"
    /\ req[c].thrown = OverflowError
    /\ counter.count = Some(IntVal(MAX_COUNT))

\* a stored count that is not a non-negative integer
Corrupt(stored) == ~(IsInteger(stored) /\ stored.v >= 0)

\* C10: whenever the stored count is anything other than a non-negative
\* integer, generateItemId() fails with a counter-corruption error, returns
\* no ID and commits no write.
C10_CorruptCounterRejected ==
  [][\A c \in Callers :
       (Concludes(c) /\ req[c].snap.exists /\ IsSome(req[c].snap.count)
          /\ Corrupt(Get(req[c].snap.count))) =>
         /\ req'[c].thrown = CorruptError
         /\ req'[c].id = ""
         /\ counter' = counter]_vars

\* the stored count, 0 when the counter document does not exist yet
CountOf(doc) == IF doc.exists /\ IsSome(doc.count) THEN Get(doc.count).v ELSE 0

\* the creation request of slot r ends in success in this step
Succeeds(r) ==
  req[r].pc = "write" /\ req'[r].pc = "done" /\ Get(req'[r].response).success

C12_ValidationErrorCarriesFields ==
  \A r \in RestSlots :
    (req[r].pc = "done" /\ req[r].failedAt = "validate") =>
      LET response == Get(req[r].response)
          validation == validateCreateItemRequest(Get(Get(req[r].request).json))
      IN  /\ response.code = "VALIDATION_ERROR"
          /\ response.details = Some([fields |-> validation.fields])

\* `sub` occurs in the string `str`
Contains(str, sub) ==
  \E i \in 1..(Len(str) - Len(sub) + 1) : SubSeq(str, i, i + Len(sub) - 1) = sub

\* C13: whenever the ID allocator or the item document write fails during a
\* creation request, through the REST route or the MCP tool, the failure is
\* logged and the caller receives a failure whose code is the generic
\* internal error and whose message and details, in production, contain no
\* text of the underlying error.
C13_StoreFailureLoggedAndGeneric ==
  \A r \in Slots :
    (req[r].pc = "done" /\ req[r].failedAt \in {"allocate", "write"}) =>
      LET response == Get(req[r].response)
      IN  /\ req[r].logged
          /\ ~response.success
          /\ response.code \in {"INTERNAL_ERROR", "InternalError"}
          /\ env.NODE_ENV = "production" =>
                /\ ~Contains(response.message, Get(req[r].thrown))
                /\ response.details = None

\* an outcome of validateApiKey held by a caller
Validated(a) == req[a].pc = "done" /\ req[a].kind = "auth"

\* C14: validateApiKey accepts a request exactly when a non-empty secret is
\* configured and the request carries a credential equal to it; with no secret
\* configured every request is rejected, and so is every request whose
\* credential is absent or empty.
C14_AcceptsExactlyTheSecret ==
  \A a \in AuthSlots :
    Validated(a) =>
      LET request == Get(req[a].request)
          valid   == Get(req[a].response).valid
          secret  == env.apiSecret
      IN  /\ valid <=> /\ IsSome(secret)
                       /\ Get(secret) # <<>>
                       /\ IsSome(request.apiKey)
                       /\ Get(request.apiKey) = Get(secret)
          /\ (secret = None \/ secret = Some(<<>>)) => ~valid
          /\ (request.apiKey = None \/ request.apiKey = Some(<<>>)) => ~valid

\* a credential one byte longer than the secret it starts with was rejected
C14_Witness ==
  \E a \in AuthSlots :
    /\ Validated(a)
    /\ env.apiSecret = Some(Secret)
    /\ Get(req[a].request).apiKey = Some(<<7, 3, 5>>)
    /\ ~Get(req[a].response).valid

\* a console record without the time it was written at
Metadata(rec) ==
  IF "timestamp" \in DOMAIN rec
  THEN [k \in DOMAIN rec \ {"timestamp"} |-> rec[k]]
  ELSE rec

\* the reason a failed verification gave to logAuthFailure
FailureReason(out) == out.log[Len(out.log)].reason

\* two verifications that differ only in the credential's value, the secret's
\* value and the time
SameButCredential(request1, request2) ==
  /\ request1.method = request2.method
  /\ request1.path = request2.path
  /\ IsSome(request1.apiKey) = IsSome(request2.apiKey)

Queried(q) == req[q].pc = "done" /\ req[q].kind = "query"

\* the step in which a caller's queryCatalogItems call completes
Queries(q) == req[q].pc = "idle" /\ req'[q].pc = "done" /\ req'[q].kind = "query"

\* the keys of the PUBLISHED documents of a collection
PublishedIds(store) == {id \in DOMAIN store : store[id].status = "PUBLISHED"}

\* C16: queryCatalogItems returns only documents that are PUBLISHED in the
\* collection it reads, counts no other document in total and pages over no
\* other; a document stored as DRAFT (an item ingested without a status) is in
\* no result.
C16_OnlyPublished ==
  [][\A q \in QuerySlots :
       Queries(q) =>
         LET options == Get(req'[q].request)
             result  == Get(req'[q].response)
             ids     == {result.items[i].id : i \in 1..Len(result.items)}
         IN  /\ ids \subseteq PublishedIds(items)
             /\ \A i \in 1..Len(result.items) :
                  result.items[i] = items[result.items[i].id]
             /\ \A id \in DOMAIN items : items[id].status = "DRAFT" => id \notin ids
             /\ result.total <= Cardinality(PublishedIds(items))
             /\ (options.filters \in {None, Some(NoFilters)})
                  => result.total = Cardinality(PublishedIds(items))
             /\ result.hasMore => result.total > Len(result.items)]_vars

\* an item ingested over MCP without a status is stored as DRAFT, and a query
\* without filters has counted the published items only
C16_Witness ==
  \E q \in QuerySlots :
    /\ Queried(q)
    /\ Get(req[q].request).filters = None
    /\ formatItemId(Len(CatalogPayloads) + 1) \in DOMAIN items
    /\ items[formatItemId(Len(CatalogPayloads) + 1)].status = "DRAFT"
    /\ Get(req[q].response).total = Cardinality(PublishedIds(items))
    /\ Get(req[q].response).total >= 2
    /\ Get(req[q].response).total < Cardinality(DOMAIN items)

\* the item's value is among the requested ones, or nothing is requested
AnyOf(filter, present, value) ==
  Requested(filter) => (present /\ \E i \in 1..Len(Get(filter)) : Get(filter)[i] = value)

\* the item satisfies every facet filter that is supplied
Satisfies(item, filters) ==
  /\ AnyOf(filters.type, TRUE, item.type)
  /\ AnyOf(filters.confidence, TRUE, item.confidence)
  /\ AnyOf(filters.language, TRUE, item.language)
  /\ AnyOf(filters.firstSeen, IsSome(item.firstSeen),
           IF IsSome(item.firstSeen) THEN Get(item.firstSeen) ELSE "")
  /\ Requested(filters.motif) =>
       \E i \in 1..Len(item.motifs), j \in 1..Len(Get(filters.motif)) :
         item.motifs[i] = Get(filters.motif)[j]

\* filters in which every supplied set is non-empty and no text is searched
FacetFiltersOnly(filters) ==
  /\ filters.search = None
  /\ \A f \in {filters.type, filters.confidence, filters.language, filters.firstSeen,
               filters.motif} : IsSome(f) => Len(Get(f)) > 0

\* C17: for filters with non-empty requested sets, the items queryCatalogItems
\* counts before pagination are exactly the PUBLISHED items that satisfy every
\* supplied filter (value among the requested ones for type, confidence,
\* language and first-seen period; at least one motif among the requested).
C17_FiltersAreAnyOf ==
  [][\A q \in QuerySlots :
       (Queries(q) /\ IsSome(Get(req'[q].request).filters)
                   /\ FacetFiltersOnly(Get(Get(req'[q].request).filters))) =>
         LET options  == Get(req'[q].request)
             result   == Get(req'[q].response)
             expected == {id \in PublishedIds(items) :
                            Satisfies(items[id], Get(options.filters))}
         IN  /\ result.total = Cardinality(expected)
             /\ {result.items[i].id : i \in 1..Len(result.items)} \subseteq expected
             /\ (options.limit = None /\ options.offset = None) =>
                  /\ Len(result.items) = Cardinality(expected)
                  /\ {result.items[i].id : i \in 1..Len(result.items)} = expected]_vars

\* three published items of types KAIDAN, URBAN_LEGEND, KAIDAN filtered by
\* type = [KAIDAN] gave the two KAIDAN items and total = 2
C17_Witness ==
  \E q \in QuerySlots :
    /\ Queried(q)
    /\ Get(req[q].request) = [ filters |-> Some([NoFilters EXCEPT !.type = Some(<<"KAIDAN">>)]),
                               sort |-> None, limit |-> None, offset |-> None ]
    /\ DOMAIN items = {formatItemId(n) : n \in 1..4}
    /\ Get(req[q].response).total = 2
    /\ {Get(req[q].response).items[i].id : i \in 1..2} = {formatItemId(2), formatItemId(4)}

\* the offset and the limit a query ran with
OffsetOf(options) == IF IsSome(options.offset) THEN Get(options.offset) ELSE DEFAULT_OFFSET
LimitOf(options) == IF IsSome(options.limit) THEN Get(options.limit) ELSE DEFAULT_LIMIT

\* the filtered and sorted list of a query, whatever its page
WholeList(store, options) ==
  queryCatalogItems(store, [options EXCEPT !.offset = Some(0),
                                           !.limit = Some(Cardinality(DOMAIN store) + 1)]).items

\* the pages of `options` at offsets from, from + limit, ... up to the first
\* page whose hasMore is false, one after another
RECURSIVE PagesFrom(_, _, _)
PagesFrom(store, options, from) ==
  LET page == queryCatalogItems(store, [options EXCEPT !.offset = Some(from)])
  IN  IF page.hasMore
      THEN page.items \o PagesFrom(store, options, from + LimitOf(options))
      ELSE page.items

\* C18: for offset >= 0 and limit >= 1 the returned items are the elements
\* offset .. offset+limit-1 of the filtered and sorted list, total is the
\* filtered count whatever the page, hasMore holds exactly when a filtered
\* item lies after the page, and the pages at offsets 0, limit, 2*limit, ...
\* up to the first without hasMore hold every filtered item exactly once.
C18_Pagination ==
  [][\A q \in QuerySlots :
       Queries(q) =>
         \A options \in {Get(req'[q].request)}, result \in {Get(req'[q].response)} :
           \A whole \in {WholeList(items, options)} :
             LET offset == OffsetOf(options)
                 limit  == LimitOf(options)
             IN  /\ result.total = Len(whole)
                 /\ Len(result.items) = Max(0, Min(limit, Len(whole) - offset))
                 /\ \A i \in 1..Len(result.items) : result.items[i] = whole[offset + i]
                 /\ result.hasMore <=> Len(whole) > offset + Len(result.items)
                 /\ result.hasMore <=> (\E k \in 1..Len(whole) : k > offset + limit)
                 /\ PagesFrom(items, options, 0) = whole
                 /\ Cardinality({whole[i].id : i \in 1..Len(whole)}) = Len(whole)]_vars

\* a second page of two items was returned with one more item behind it
C18_Witness ==
  \E q \in QuerySlots :
    /\ Queried(q)
    /\ Get(req[q].request).offset = Some(2)
    /\ Get(req[q].request).limit = Some(2)
    /\ Len(Get(req[q].response).items) = 2
    /\ Get(req[q].response).hasMore
    /\ Get(req[q].response).total = 5

\* the counts of one dimension added up
RECURSIVE SumOver(_, _)
SumOver(counts, values) ==
  IF values = {} THEN 0
  ELSE LET v == CHOOSE x \in values : TRUE
       IN  counts[v] + SumOver(counts, values \ {v})
SumOfCounts(counts) == SumOver(counts, DOMAIN counts)

\* a result of getFacetCounts held by a caller, with the list it counted
Counted(q) == req[q].pc = "done" /\ req[q].kind = "facets"

\* C19: the counts getFacetCounts returns for type, confidence, language and
\* first-seen period each add up to the number of items counted, and the
\* motif counts add up to at least that number.
C19_FacetSums ==
  \A q \in QuerySlots :
    Counted(q) =>
      LET counts == Get(req[q].response)
          n      == Len(Get(req[q].data))
      IN  /\ SumOfCounts(counts.type) = n
          /\ SumOfCounts(counts.confidence) = n
          /\ SumOfCounts(counts.language) = n
          /\ SumOfCounts(counts.firstSeen) = n
          /\ SumOfCounts(counts.motif) >= n

\* an outcome of validateCreateItemRequest held by a caller
ValidatedPayload(v) == req[v].pc = "done" /\ req[v].kind = "validate"

\* a supplied variant that is not the empty string
NonEmptyVariant(len) == IsSome(len) /\ Get(len) >= 1
\* a variant that is left out or at most `max` long
WithinLimit(len, max) == IsSome(len) => Get(len) <= max

ReportsField(key, field) ==
  \/ key = field
  \/ Len(key) > Len(field) /\ SubSeq(key, 1, Len(field) + 1) = field \o "."

\* C21: for a payload that breaks the rules of several fields at once,
\* validateCreateItemRequest fails with a field-error map that has an entry
\* for every violating field, and it succeeds only when no rule is broken.
C21_EveryViolationReported ==
  \A v \in ValidateSlots :
    (req[v].pc = "done" /\ req[v].kind = "validateFaulty") =>
      LET faults == Get(req[v].request)
          result == Get(req[v].response)
      IN  /\ result.success <=> faults = {}
          /\ \A fault \in faults :
               \E key \in DOMAIN result.fields : ReportsField(key, FieldOf(fault))
          /\ \A key \in DOMAIN result.fields :
               \E fault \in faults : ReportsField(key, FieldOf(fault))

\* a payload broken in three fields was rejected with three entries, one of
\* them below the field title
C21_Witness ==
  \E v \in ValidateSlots :
    /\ req[v].pc = "done" /\ req[v].kind = "validateFaulty"
    /\ Get(req[v].request) = {"titleLength", "motifs", "sourceUrl"}
    /\ ~Get(req[v].response).success
    /\ DOMAIN Get(req[v].response).fields = {"title.ja", "motifs", "sourceUrl"}

(***************************************************************************)
(* C22  normalizeText is idempotent: normalizing a text that normalizeText *)
(* returned gives that text back.                                          *)
(***************************************************************************)
Normalized(t) == req[t].pc = "done" /\ req[t].kind = "normalize"

C22_NormalizeIdempotent ==
  \A t \in TextSlots :
    Normalized(t) => normalizeText(Get(req[t].response)) = Get(req[t].response)

(***************************************************************************)
(* C23  The counter's count is a non-negative integer that never           *)
(* decreases, and the counter document changes only by a +1 step committed *)
(* by generateItemId's transaction: every step that changes the document   *)
(* is the commit of a request that was in the transaction, and it leaves   *)
(* the count one higher than it was (0 for a document that did not exist). *)
(***************************************************************************)
CommittedBy(r) ==
  /\ req[r].pc = "txn_update"
  /\ req'[r].pc # "txn_update"
  /\ counter' = generateItemId_update(req[r].snap, now).doc

C23_CounterOnlyIncrements ==
  [][ counter' # counter =>
        /\ \E r \in Slots \cup Callers : CommittedBy(r)
        /\ CountOf(counter') = CountOf(counter) + 1
        /\ CountOf(counter') >= 0 ]_vars

(***************************************************************************)
(* C24  Calls of checkRateLimit for one client, in whatever order they     *)
(* arrive, each read, increment and decide in one step: a call made inside *)
(* the client's window leaves the count one above the count it found, a    *)
(* call that opens a window leaves it at 1, so after n calls of a window   *)
(* the count is n; and the call is allowed exactly when the count it       *)
(* leaves is at most max, so at most max calls of a window are allowed.    *)
(***************************************************************************)
InWindow(ip) ==
  /\ ip \in DOMAIN rateLimitStore
  /\ now - rateLimitStore[ip].windowStart < getConfig(env).windowMs

C24_CheckAndIncrementAtomic ==
  [][ calls' = calls + 1 =>
        \A call \in {Get(lastCheck')} :
          /\ call.ip \in DOMAIN rateLimitStore'
          /\ rateLimitStore'[call.ip].count =
               IF InWindow(call.ip) THEN rateLimitStore[call.ip].count + 1 ELSE 1
          /\ rateLimitStore'[call.ip].count = window'[call.ip].rank
          /\ call.result.allowed <=>
               rateLimitStore'[call.ip].count <= getConfig(env).maxRequests
          /\ \A ip \in DOMAIN rateLimitStore' \ {call.ip} :
               rateLimitStore'[ip] = rateLimitStore[ip] ]_vars

\* four calls of one client inside one window that admits two, while another
\* client is being counted
C24_Witness ==
  /\ IsSome(lastCheck)
  /\ getConfig(env).maxRequests = 2
  /\ rateLimitStore[Get(lastCheck).ip].count = 4
  /\ ~Get(lastCheck).result.allowed
  /\ Cardinality(DOMAIN rateLimitStore) > 1

(***************************************************************************)
(* C25  Every rate-limit record whose window has expired is eventually     *)
(* removed from the store (or replaced by the record of a new window),     *)
(* whether or not another checkRateLimit call arrives.                     *)
(***************************************************************************)
RateClients == {getClientIp(request) : request \in RateRequests}

\* the window of ip's record has run for windowMs
Expired(ip) ==
  /\ ip \in DOMAIN rateLimitStore
  /\ now - rateLimitStore[ip].windowStart >= getConfig(env).windowMs

C25_ExpiredEventuallyRemoved ==
  \A ip \in RateClients : Expired(ip) ~> ~Expired(ip)

(***************************************************************************)
(* C26  matchesSearchQuery(generateSearchTokens(item), q) is true exactly  *)
(* when the normalized q is empty or some whitespace-separated word of     *)
(* some normalized seed of the item starts with the normalized q.          *)
(***************************************************************************)
Matched(t) == req[t].pc = "done" /\ req[t].kind = "match"

\* the whitespace-separated words of the normalized seeds of an item
IndexedWords(item) ==
  UNION { { w \in Range(SplitOnSpace(normalizeText(seed), <<>>)) : w # <<>> } :
            seed \in Range(extractSeeds(item)) }

SomeWordStartsWith(item, query) ==
  \/ normalizeText(query) = <<>>
  \/ \E word \in IndexedWords(item) : StartsWith(word, normalizeText(query))

C26_MatchIsWordPrefix ==
  \A t \in TextSlots :
    Matched(t) =>
      (Get(req[t].response) <=>
         SomeWordStartsWith(Get(req[t].request).item, Get(req[t].request).query))

(***************************************************************************)
(* C27  generateSearchTokens(item) is the duplicate-free list, sorted by   *)
(* code unit, of the non-empty normalized forms of the seeds (id, the id's *)
(* numeric suffix, title.ja, title.en, originalTitle, sourceName, each     *)
(* motif) and of every prefix of length 1..min(10, L) of every word of     *)
(* length L of those normalized forms; no token is empty; and items that   *)
(* agree on id, title, originalTitle, sourceName and motifs have the same  *)
(* token list.                                                             *)
(***************************************************************************)
Tokenized(t) == req[t].pc = "done" /\ req[t].kind = "tokens"

\* the texts of the fields that contribute seeds
SeedTexts(item) ==
  {Chars(item.id), StripIdPrefix(Chars(item.id))}
    \cup {Get(f) : f \in {g \in {item.title.ja, item.title.en, item.originalTitle,
                                 item.sourceName} : IsSome(g)}}
    \cup {Chars(item.motifs[i]) : i \in 1..Len(item.motifs)}

ExpectedTokensOf(text) ==
  {normalizeText(text)}
    \cup UNION { {SubSeq(w, 1, k) : k \in 1..Min(MAX_PREFIX_LENGTH, Len(w))} :
                  w \in Range(SplitOnSpace(normalizeText(text), <<>>)) }

ExpectedTokens(item) ==
  UNION {ExpectedTokensOf(text) : text \in SeedTexts(item)} \ {<<>>}

SameSeedFields(a, b) ==
  /\ a.id = b.id /\ a.title = b.title /\ a.originalTitle = b.originalTitle
  /\ a.sourceName = b.sourceName /\ a.motifs = b.motifs

C27_TokensExact ==
  \A t \in TextSlots :
    Tokenized(t) =>
      LET item   == Get(req[t].request)
          tokens == Get(req[t].response)
      IN  /\ Range(tokens) = ExpectedTokens(item)
          /\ \A i, j \in 1..Len(tokens) : i < j => CodeUnitLess(tokens[i], tokens[j])
          /\ <<>> \notin Range(tokens)
          /\ \A other \in SearchItems :
               SameSeedFields(item, other) => generateSearchTokens(other) = tokens

\* the tokens of an item with a word longer than 10 characters, a seed made
\* of symbols only and a repeated motif
C27_Witness ==
  \E t \in TextSlots :
    /\ Tokenized(t)
    /\ Get(req[t].request).sourceName = Some(Chars("(-)"))
    /\ Get(req[t].request).motifs = <<"WATER", "WATER">>
    /\ Chars("red abcdefghijkl") \in Range(Get(req[t].response))
    /\ Chars("abcdefghij") \in Range(Get(req[t].response))
    /\ Chars("abcdefghijk") \notin Range(Get(req[t].response))

(***************************************************************************)
(* C28  For every sort key and both directions the items a query returns   *)
(* are in the order of the key (first-seen period by the rank Pre-1999 <   *)
(* 2000s < 2010s < 2020s < Unknown < anything else or nothing), items with *)
(* equal keys are in the order they have in the list the store returned,   *)
(* and a page that covers the whole result is a permutation of the         *)
(* filtered items.                                                         *)
(***************************************************************************)
SortOf(options) == IF IsSome(options.sort) THEN Get(options.sort) ELSE DEFAULT_SORT

EraRank(item) ==
  IF item.firstSeen = Some("Pre-1999") THEN 1
  ELSE IF item.firstSeen = Some("2000s") THEN 2
  ELSE IF item.firstSeen = Some("2010s") THEN 3
  ELSE IF item.firstSeen = Some("2020s") THEN 4
  ELSE IF item.firstSeen = Some("Unknown") THEN 5
  ELSE 6

SortKey(item, field) ==
  CASE field = "updatedAt" -> item.updatedAt
    [] field = "createdAt" -> item.createdAt
    [] field = "firstSeen" -> EraRank(item)
    [] field = "annotationCount" -> item.annotationCount

\* the position of the item `id` in a list
PositionOf(list, id) == CHOOSE i \in 1..Len(list) : list[i].id = id

C28_SortOrderedAndStable ==
  \A q \in QuerySlots :
    Queried(q) =>
      \A options \in {Get(req[q].request)}, page \in {Get(req[q].response).items},
         underlying \in {Get(req[q].data)} :
        LET sort     == SortOf(options)
            key(i)   == SortKey(page[i], sort.field)
            filters  == IF IsSome(options.filters) THEN Get(options.filters) ELSE NoFilters
            filtered == applyFilters(underlying, filters)
        IN  /\ \A i, j \in 1..Len(page) :
                 i < j =>
                   /\ sort.order = "asc" => key(i) <= key(j)
                   /\ sort.order = "desc" => key(i) >= key(j)
                   /\ key(i) = key(j) =>
                        PositionOf(underlying, page[i].id) < PositionOf(underlying, page[j].id)
            /\ (OffsetOf(options) = 0 /\ LimitOf(options) >= Len(filtered)) =>
                 /\ Len(page) = Len(filtered)
                 /\ Range(page) = Range(filtered)

\* a descending sort by first-seen period of three items or more, two of
\* them without a recognized period, in the order the store returned them,
\* and one of the 2000s
C28_Witness ==
  \E q \in QuerySlots :
    /\ Queried(q)
    /\ Get(req[q].request).sort = Some([field |-> "firstSeen", order |-> "desc"])
    /\ Len(Get(req[q].response).items) >= 3
    /\ EraRank(Get(req[q].response).items[1]) = 6
    /\ EraRank(Get(req[q].response).items[2]) = 6
    /\ EraRank(Get(req[q].response).items[Len(Get(req[q].response).items)]) = 2

(***************************************************************************)
(* C29  For every list getFacetCounts counted, every facet dimension and   *)
(* every value it reports, the count equals the number of items of that    *)
(* list a filter on that dimension by that value alone lets through.       *)
(***************************************************************************)
FacetDimensions == {"type", "confidence", "language", "firstSeen", "motif"}

FilterOn(dimension, v) == [NoFilters EXCEPT ![dimension] = Some(<<v>>)]

CountsMatchFilter(q, dimensions) ==
  \A counts \in {Get(req[q].response)}, counted \in {Get(req[q].data)} :
    \A dimension \in dimensions :
      \A v \in DOMAIN counts[dimension] :
        counts[dimension][v] = Len(applyFilters(counted, FilterOn(dimension, v)))

C29_FacetCountIsFilterTotal ==
  \A q \in QuerySlots : Counted(q) => CountsMatchFilter(q, FacetDimensions)

(***************************************************************************)
(* C30  Every POST /api/v1/items request is counted once in its client's   *)
(* window, by the checkRateLimit call that comes before authentication and *)
(* validation: the step that starts the request leaves the client's count  *)
(* one above the count of the window (1 when it opens a window), no later  *)
(* step of the request changes the limiter's store, so a request rejected  *)
(* later as unauthenticated or invalid has used a place of the window; and *)
(* a request the limiter denies ends in that step, with no check passed,   *)
(* nothing logged by authentication, no validated data, no id and no       *)
(* effect on the counter or the items.                                     *)
(***************************************************************************)
Arrives(r) == req[r].pc = "idle" /\ req'[r].pc # "idle"

C30_CountedBeforeAuthentication ==
  [][\A r \in RestSlots :
       /\ Arrives(r) =>
            \A ip \in {getClientIp(Get(req'[r].request))}, rl \in {Get(req'[r].rl)} :
              /\ ip \in DOMAIN rateLimitStore'
              /\ rateLimitStore'[ip].count =
                   IF InWindow(ip) THEN rateLimitStore[ip].count + 1 ELSE 1
              /\ rl.allowed => req'[r].pc = "auth" /\ req'[r].passed = <<"rate">>
              /\ ~rl.allowed =>
                   /\ req'[r].pc = "done" /\ req'[r].failedAt = "rate"
                   /\ req'[r].passed = <<>> /\ ~req'[r].logged
                   /\ req'[r].data = None /\ req'[r].id = "" /\ req'[r].effects = {}
                   /\ counter' = counter /\ items' = items
       /\ (req[r].pc # "idle" /\ req'[r] # req[r]) =>
            rateLimitStore' = rateLimitStore
       /\ (req[r].pc \notin {"idle", "done"} /\ req'[r] # req[r]) =>
            /\ req[r].passed # <<>> /\ Head(req[r].passed) = "rate"
            /\ Get(req[r].rl).allowed
            /\ req'[r].rl = req[r].rl ]_vars

\* a request rejected by validation has used the only place of its client's
\* window: the next request of that client would be denied
C30_Witness ==
  \E r \in RestSlots :
    /\ req[r].pc = "done"
    /\ req[r].failedAt \in {"auth", "validate"}
    /\ Get(req[r].rl).allowed
    /\ Get(req[r].rl).remaining = 0
    /\ ~checkRateLimit(rateLimitStore, lastCleanup, now, Get(req[r].request),
                       env).result.allowed

====
